---- MODULE Spec2Model ----
(***************************************************************************)
(* Gardner MiniChess (5x5) rules engine: src/src/minichess/game.py.        *)
(*                                                                         *)
(* A MiniChessState is the record                                          *)
(*   [board, to_move, move_history, halfmove_clock, position_history].     *)
(* A Board is a tuple of BOARD_SIZE rows of BOARD_SIZE piece codes; rows   *)
(* and columns are numbered 0..4 as in the source, so square (r, c) is     *)
(* board[r + 1][c + 1].  Python's None is the string "None".               *)
(***************************************************************************)
EXTENDS Integers, Sequences, FiniteSets, TLC

BOARD_SIZE == 5

None == "None"

WhitePieces == {"P", "N", "B", "R", "Q", "K"}
BlackPieces == {"p", "n", "b", "r", "q", "k"}

\* str.isupper() on a piece code
IsUpper(piece) == piece \in WhitePieces

\* str.upper() on a piece code
Upper(piece) ==
    CASE piece = "p" -> "P"
      [] piece = "n" -> "N"
      [] piece = "b" -> "B"
      [] piece = "r" -> "R"
      [] piece = "q" -> "Q"
      [] piece = "k" -> "K"
      [] OTHER -> piece

\* Move(from_sq, to_sq, promotion): a frozen dataclass, equal by fields
Move(from_sq, to_sq, promotion) ==
    [from_sq |-> from_sq, to_sq |-> to_sq, promotion |-> promotion]

\* board[r][c]
At(board, r, c) == board[r + 1][c + 1]

\* Optional[Tuple[int, int]] of _find_king: NoSquare stands for None
NoSquare == <<-1, -1>>

RECURSIVE ExtendFrom(_, _, _)
ExtendFrom(lists, i, n) ==
    IF i > n THEN <<>> ELSE lists[i] \o ExtendFrom(lists, i + 1, n)

\* out = []; for x in ...: out.extend(lists[x]), over the n lists
Extend(lists, n) == ExtendFrom(lists, 1, n)

\* the elements of a list
Range(seq) == {seq[i] : i \in 1..Len(seq)}

\* tuple.count(x)
Count(seq, x) == Cardinality({i \in 1..Len(seq) : seq[i] = x})

(***************************************************************************)
(* Internal helpers                                                        *)
(***************************************************************************)

_piece_color(piece) == IF IsUpper(piece) THEN "W" ELSE "B"

_in_bounds(r, c) == 0 <= r /\ r < BOARD_SIZE /\ 0 <= c /\ c < BOARD_SIZE

_apply_move(board, move) ==
    LET piece == At(board, move.from_sq[1], move.from_sq[2])
        cleared == [board EXCEPT ![move.from_sq[1] + 1][move.from_sq[2] + 1] = None]
        dest_piece == IF move.promotion # None THEN move.promotion ELSE piece
    IN  [cleared EXCEPT ![move.to_sq[1] + 1][move.to_sq[2] + 1] = dest_piece]

\* the promotion piece of a pawn of this color
PromotionPiece(color) == IF color = "W" THEN "Q" ELSE "q"

\* pawn moves whose captures onto the promotion rank carry no promotion
_pawn_moves_capture_unpromoted(board, r, c, color) ==
    LET direction == IF color = "W" THEN 1 ELSE -1
        promotion_rank == IF color = "W" THEN BOARD_SIZE - 1 ELSE 0
        one_forward == <<r + direction, c>>
        push ==
            IF /\ _in_bounds(one_forward[1], one_forward[2])
               /\ At(board, one_forward[1], one_forward[2]) = None
            THEN IF one_forward[1] = promotion_rank
                 THEN <<Move(<<r, c>>, one_forward, PromotionPiece(color))>>
                 ELSE <<Move(<<r, c>>, one_forward, None)>>
            ELSE <<>>
        capture(dc) ==
            LET target == <<r + direction, c + dc>>
            IN  IF ~_in_bounds(target[1], target[2]) THEN <<>>
                ELSE LET target_piece == At(board, target[1], target[2])
                     IN  IF target_piece = None \/ _piece_color(target_piece) = color
                         THEN <<>>
                         ELSE <<Move(<<r, c>>, target, None)>>
    IN  push \o capture(-1) \o capture(1)

_pawn_moves(board, r, c, color) ==
    LET direction == IF color = "W" THEN 1 ELSE -1
        promotion_rank == IF color = "W" THEN BOARD_SIZE - 1 ELSE 0
        one_forward == <<r + direction, c>>
        mk(target) ==
            IF target[1] = promotion_rank
            THEN Move(<<r, c>>, target, PromotionPiece(color))
            ELSE Move(<<r, c>>, target, None)
        push ==
            IF /\ _in_bounds(one_forward[1], one_forward[2])
               /\ At(board, one_forward[1], one_forward[2]) = None
            THEN <<mk(one_forward)>>
            ELSE <<>>
        capture(dc) ==
            LET target == <<r + direction, c + dc>>
            IN  IF ~_in_bounds(target[1], target[2]) THEN <<>>
                ELSE LET target_piece == At(board, target[1], target[2])
                     IN  IF target_piece = None \/ _piece_color(target_piece) = color
                         THEN <<>>
                         ELSE <<mk(target)>>
    IN  push \o capture(-1) \o capture(1)

KnightDeltas ==
    << <<2, 1>>, <<2, -1>>, <<-2, 1>>, <<-2, -1>>,
       <<1, 2>>, <<1, -2>>, <<-1, 2>>, <<-1, -2>> >>

\* the moves of a piece that steps once by each delta (knight, king)
StepMoves(board, r, c, color, deltas) ==
    LET one(d) ==
            LET nr == r + d[1]
                nc == c + d[2]
            IN  IF ~_in_bounds(nr, nc) THEN <<>>
                ELSE LET target == At(board, nr, nc)
                     IN  IF target = None \/ _piece_color(target) # color
                         THEN <<Move(<<r, c>>, <<nr, nc>>, None)>>
                         ELSE <<>>
    IN  Extend([i \in 1..Len(deltas) |-> one(deltas[i])], Len(deltas))

\* a knight that may also land on a piece of its own colour
_knight_moves_onto_own(board, r, c, color) ==
    StepMoves(board, r, c, IF color = "W" THEN "B" ELSE "W", KnightDeltas)
        \o StepMoves(board, r, c, color, KnightDeltas)

_knight_moves(board, r, c, color) == StepMoves(board, r, c, color, KnightDeltas)

DiagonalDirs == << <<1, 1>>, <<1, -1>>, <<-1, 1>>, <<-1, -1>> >>
OrthogonalDirs == << <<1, 0>>, <<-1, 0>>, <<0, 1>>, <<0, -1>> >>

RECURSIVE SlideRay(_, _, _, _, _, _, _, _)
\* the while loop of _slider_moves along one direction, from (nr, nc)
SlideRay(board, r, c, color, nr, nc, dr, dc) ==
    IF ~_in_bounds(nr, nc) THEN <<>>
    ELSE LET target == At(board, nr, nc)
         IN  IF target = None
             THEN <<Move(<<r, c>>, <<nr, nc>>, None)>>
                  \o SlideRay(board, r, c, color, nr + dr, nc + dc, dr, dc)
             ELSE IF _piece_color(target) # color
                  THEN <<Move(<<r, c>>, <<nr, nc>>, None)>>
                  ELSE <<>>

_slider_moves(board, r, c, color, diagonals, orthogonals) ==
    LET directions == (IF diagonals THEN DiagonalDirs ELSE <<>>)
                      \o (IF orthogonals THEN OrthogonalDirs ELSE <<>>)
        ray(d) == SlideRay(board, r, c, color, r + d[1], c + d[2], d[1], d[2])
    IN  Extend([i \in 1..Len(directions) |-> ray(directions[i])], Len(directions))

\* for dr in (-1, 0, 1): for dc in (-1, 0, 1): skipping (0, 0)
KingDeltas ==
    << <<-1, -1>>, <<-1, 0>>, <<-1, 1>>, <<0, -1>>,
       <<0, 1>>, <<1, -1>>, <<1, 0>>, <<1, 1>> >>

_king_moves(board, r, c, color) == StepMoves(board, r, c, color, KingDeltas)

_piece_moves(board, r, c, piece) ==
    LET color == _piece_color(piece)
        p == Upper(piece)
    IN  CASE p = "P" -> _pawn_moves(board, r, c, color)
          [] p = "N" -> _knight_moves(board, r, c, color)
          [] p = "B" -> _slider_moves(board, r, c, color, TRUE, FALSE)
          [] p = "R" -> _slider_moves(board, r, c, color, FALSE, TRUE)
          [] p = "Q" -> _slider_moves(board, r, c, color, TRUE, TRUE)
          [] p = "K" -> _king_moves(board, r, c, color)
          [] OTHER -> <<>>

\* the squares in row-major order: range(BOARD_SIZE) x range(BOARD_SIZE)
RowMajor == [i \in 1..(BOARD_SIZE * BOARD_SIZE) |->
                <<(i - 1) \div BOARD_SIZE, (i - 1) % BOARD_SIZE>>]

_find_king(board, color) ==
    LET target == IF color = "W" THEN "K" ELSE "k"
        hits == SelectSeq(RowMajor, LAMBDA sq : At(board, sq[1], sq[2]) = target)
    IN  IF hits = <<>> THEN NoSquare ELSE hits[1]

RECURSIVE AttackRay(_, _, _, _, _, _, _)
\* the while loop of a sliding attack of _square_attacked from (nr, nc)
AttackRay(board, nr, nc, dr, dc, by_color, kinds) ==
    IF ~_in_bounds(nr, nc) THEN FALSE
    ELSE LET piece == At(board, nr, nc)
         IN  IF piece = None
             THEN AttackRay(board, nr + dr, nc + dc, dr, dc, by_color, kinds)
             ELSE _piece_color(piece) = by_color /\ Upper(piece) \in kinds

\* an attack test that looks for pawns on the wrong side of the square
_square_attacked_behind_pawns(board, r, c, by_color) ==
    LET pawn_dir == IF by_color = "W" THEN 1 ELSE -1
        pawn == IF by_color = "W" THEN "P" ELSE "p"
        knight == IF by_color = "W" THEN "N" ELSE "n"
        king == IF by_color = "W" THEN "K" ELSE "k"
    IN  \/ \E dc \in {-1, 1} :
              /\ _in_bounds(r + pawn_dir, c - dc)
              /\ At(board, r + pawn_dir, c - dc) = pawn
        \/ \E i \in 1..Len(KnightDeltas) :
              /\ _in_bounds(r + KnightDeltas[i][1], c + KnightDeltas[i][2])
              /\ At(board, r + KnightDeltas[i][1], c + KnightDeltas[i][2]) = knight
        \/ \E i \in 1..Len(DiagonalDirs) :
              AttackRay(board, r + DiagonalDirs[i][1], c + DiagonalDirs[i][2],
                        DiagonalDirs[i][1], DiagonalDirs[i][2], by_color, {"B", "Q"})
        \/ \E i \in 1..Len(OrthogonalDirs) :
              AttackRay(board, r + OrthogonalDirs[i][1], c + OrthogonalDirs[i][2],
                        OrthogonalDirs[i][1], OrthogonalDirs[i][2], by_color, {"R", "Q"})
        \/ \E i \in 1..Len(KingDeltas) :
              /\ _in_bounds(r + KingDeltas[i][1], c + KingDeltas[i][2])
              /\ At(board, r + KingDeltas[i][1], c + KingDeltas[i][2]) = king

_square_attacked(board, r, c, by_color) ==
    LET pawn_dir == IF by_color = "W" THEN 1 ELSE -1
        pawn == IF by_color = "W" THEN "P" ELSE "p"
        knight == IF by_color = "W" THEN "N" ELSE "n"
        king == IF by_color = "W" THEN "K" ELSE "k"
    IN  \/ \E dc \in {-1, 1} :
              /\ _in_bounds(r - pawn_dir, c - dc)
              /\ At(board, r - pawn_dir, c - dc) = pawn
        \/ \E i \in 1..Len(KnightDeltas) :
              /\ _in_bounds(r + KnightDeltas[i][1], c + KnightDeltas[i][2])
              /\ At(board, r + KnightDeltas[i][1], c + KnightDeltas[i][2]) = knight
        \/ \E i \in 1..Len(DiagonalDirs) :
              AttackRay(board, r + DiagonalDirs[i][1], c + DiagonalDirs[i][2],
                        DiagonalDirs[i][1], DiagonalDirs[i][2], by_color, {"B", "Q"})
        \/ \E i \in 1..Len(OrthogonalDirs) :
              AttackRay(board, r + OrthogonalDirs[i][1], c + OrthogonalDirs[i][2],
                        OrthogonalDirs[i][1], OrthogonalDirs[i][2], by_color, {"R", "Q"})
        \/ \E i \in 1..Len(KingDeltas) :
              /\ _in_bounds(r + KingDeltas[i][1], c + KingDeltas[i][2])
              /\ At(board, r + KingDeltas[i][1], c + KingDeltas[i][2]) = king

_is_in_check(board, color) ==
    LET king_pos == _find_king(board, color)
        opponent == IF color = "W" THEN "B" ELSE "W"
    IN  IF king_pos = NoSquare THEN TRUE
        ELSE _square_attacked(board, king_pos[1], king_pos[2], opponent)

(***************************************************************************)
(* MiniChessState                                                          *)
(***************************************************************************)

MiniChessState(board, to_move, move_history, halfmove_clock, position_history) ==
    [board |-> board, to_move |-> to_move, move_history |-> move_history,
     halfmove_clock |-> halfmove_clock, position_history |-> position_history]

\* the first loop of legal_moves: the pseudo-legal moves of the side to move
pseudo_moves(self) ==
    LET of(sq) ==
            LET piece == At(self.board, sq[1], sq[2])
            IN  IF piece = None \/ _piece_color(piece) # self.to_move THEN <<>>
                ELSE _piece_moves(self.board, sq[1], sq[2], piece)
    IN  Extend([i \in 1..Len(RowMajor) |-> of(RowMajor[i])], Len(RowMajor))

\* legal_moves without the second loop: every pseudo-legal move is kept
legal_moves_unfiltered(self) == pseudo_moves(self)

\* legal_moves testing the check on the board before the move instead of after it
legal_moves_before_move(self) ==
    SelectSeq(pseudo_moves(self),
              LAMBDA move : ~_is_in_check(self.board, self.to_move))

legal_moves(self) ==
    SelectSeq(pseudo_moves(self),
              LAMBDA move : ~_is_in_check(_apply_move(self.board, move), self.to_move))


\* the successor with the position after the move recorded in the position history
Successor_records_next(self, move, next_halfmove) ==
    MiniChessState(_apply_move(self.board, move),
                   IF self.to_move = "W" THEN "B" ELSE "W",
                   Append(self.move_history, move),
                   next_halfmove,
                   Append(self.position_history,
                          <<_apply_move(self.board, move),
                            IF self.to_move = "W" THEN "B" ELSE "W">>))

\* the successor make_move builds, with the halfmove clock set to next_halfmove
Successor(self, move, next_halfmove) ==
    MiniChessState(_apply_move(self.board, move),
                   IF self.to_move = "W" THEN "B" ELSE "W",
                   Append(self.move_history, move),
                   next_halfmove,
                   Append(self.position_history, <<self.board, self.to_move>>))

\* make_move that never validates
make_move_with_unvalidated(self, move, validate, legal) ==
    LET moving_piece == At(self.board, move.from_sq[1], move.from_sq[2])
        is_capture == At(self.board, move.to_sq[1], move.to_sq[2]) # None
        is_pawn_move == moving_piece # None /\ Upper(moving_piece) = "P"
    IN  [error |-> "",
         state |-> Successor(self, move, IF is_pawn_move \/ is_capture THEN 0
                                         ELSE self.halfmove_clock + 1)]

\* make_move that resets the halfmove clock on pawn moves only, not on captures
make_move_with_capture_counted(self, move, validate, legal) ==
    IF validate /\ move \notin Range(legal)
    THEN [error |-> "Illegal move", state |-> self]
    ELSE LET moving_piece == At(self.board, move.from_sq[1], move.from_sq[2])
             is_pawn_move == moving_piece # None /\ Upper(moving_piece) = "P"
         IN  [error |-> "",
              state |-> Successor(self, move, IF is_pawn_move THEN 0
                                              ELSE self.halfmove_clock + 1)]

\* make_move, given the list self.legal_moves() returns
make_move_with(self, move, validate, legal) ==
    IF validate /\ move \notin Range(legal)
    THEN [error |-> "Illegal move", state |-> self]
    ELSE LET moving_piece == At(self.board, move.from_sq[1], move.from_sq[2])
             is_capture == At(self.board, move.to_sq[1], move.to_sq[2]) # None
             is_pawn_move == moving_piece # None /\ Upper(moving_piece) = "P"
             next_halfmove == IF is_pawn_move \/ is_capture THEN 0
                              ELSE self.halfmove_clock + 1
         IN  [error |-> "", state |-> Successor(self, move, next_halfmove)]

\* the halfmove clock at which the 50-move rule draws the game
FIFTY_MOVE_HALFMOVES == 100

\* the number of earlier occurrences that makes a position a threefold repetition
REPETITIONS_FOR_DRAW == 2

\* _insufficient_material counting the kings as material
_insufficient_material_counts_kings(self) ==
    LET row(r) == SelectSeq(r, LAMBDA piece : piece # None)
        pieces == Extend([i \in 1..BOARD_SIZE |-> row(self.board[i])], BOARD_SIZE)
    IN  Len(pieces) = 0

_insufficient_material(self) ==
    LET row(r) == SelectSeq(r, LAMBDA piece : piece # None /\ Upper(piece) # "K")
        pieces == Extend([i \in 1..BOARD_SIZE |-> row(self.board[i])], BOARD_SIZE)
    IN  Len(pieces) = 0

\* is_draw with halfmove_clock > 100 for >= 100
is_draw_clock_past(self) ==
    LET current_pos == <<self.board, self.to_move>>
        repetitions == Count(self.position_history, current_pos)
    IN  IF repetitions >= REPETITIONS_FOR_DRAW THEN TRUE
        ELSE IF self.halfmove_clock > FIFTY_MOVE_HALFMOVES THEN TRUE
        ELSE IF _insufficient_material(self) THEN TRUE
        ELSE FALSE

\* is_draw with repetitions > 2 for >= 2
is_draw_fourth_occurrence(self) ==
    LET current_pos == <<self.board, self.to_move>>
        repetitions == Count(self.position_history, current_pos)
    IN  IF repetitions > REPETITIONS_FOR_DRAW THEN TRUE
        ELSE IF self.halfmove_clock >= FIFTY_MOVE_HALFMOVES THEN TRUE
        ELSE IF _insufficient_material(self) THEN TRUE
        ELSE FALSE

\* is_draw without the 50-move rule
is_draw_without_fifty(self) ==
    LET current_pos == <<self.board, self.to_move>>
        repetitions == Count(self.position_history, current_pos)
    IN  IF repetitions >= REPETITIONS_FOR_DRAW THEN TRUE
        ELSE IF _insufficient_material(self) THEN TRUE
        ELSE FALSE

is_draw(self) ==
    LET current_pos == <<self.board, self.to_move>>
        repetitions == Count(self.position_history, current_pos)
    IN  IF repetitions >= REPETITIONS_FOR_DRAW THEN TRUE
        ELSE IF self.halfmove_clock >= FIFTY_MOVE_HALFMOVES THEN TRUE
        ELSE IF _insufficient_material(self) THEN TRUE
        ELSE FALSE

\* is_terminal without the test for no legal moves
is_terminal_draws_only(self) == is_draw(self)

is_terminal(self) ==
    IF is_draw(self) THEN TRUE ELSE legal_moves(self) = <<>>

\* result with the winner's sign taken from the side to move
result_sign_swapped(self) ==
    IF ~is_terminal(self) THEN [error |-> "Game not finished", value |-> 0]
    ELSE IF is_draw(self) THEN [error |-> "", value |-> 0]
    ELSE LET in_check == _is_in_check(self.board, self.to_move)
         IN  IF in_check
             THEN [error |-> "", value |-> IF self.to_move = "W" THEN 1 ELSE -1]
             ELSE [error |-> "", value |-> 0]

\* result(): error is "" when a value is returned
result(self) ==
    IF ~is_terminal(self) THEN [error |-> "Game not finished", value |-> 0]
    ELSE IF is_draw(self) THEN [error |-> "", value |-> 0]
    ELSE LET in_check == _is_in_check(self.board, self.to_move)
         IN  IF in_check
             THEN [error |-> "", value |-> IF self.to_move = "B" THEN 1 ELSE -1]
             ELSE [error |-> "", value |-> 0]

_result_no_moves(self) ==
    LET in_check == _is_in_check(self.board, self.to_move)
    IN  IF in_check THEN (IF self.to_move = "B" THEN 1 ELSE -1) ELSE 0

\* terminal_result looking at the legal moves before the draws
terminal_result_moves_first(self) ==
    IF legal_moves(self) # <<>> THEN <<FALSE, 0>>
    ELSE IF is_draw(self) THEN <<TRUE, 0>>
    ELSE <<TRUE, _result_no_moves(self)>>

\* terminal_result(): the pair (is_terminal, result)
terminal_result(self) ==
    IF is_draw(self) THEN <<TRUE, 0>>
    ELSE IF legal_moves(self) # <<>> THEN <<FALSE, 0>>
    ELSE <<TRUE, _result_no_moves(self)>>

make_move(self, move, validate) ==
    make_move_with(self, move, validate, legal_moves(self))

initial_board ==
    LET top == <<"r", "n", "b", "q", "k">>
        top_pawns == [i \in 1..BOARD_SIZE |-> "p"]
        empty == [i \in 1..BOARD_SIZE |-> None]
        bottom_pawns == [i \in 1..BOARD_SIZE |-> Upper(top_pawns[i])]
        bottom == [i \in 1..BOARD_SIZE |-> Upper(top[i])]
    IN  <<bottom, bottom_pawns, empty, top_pawns, top>>

initial_state == MiniChessState(initial_board, "W", <<>>, 0, <<>>)


(***************************************************************************)
(* The state held by a caller of the engine, and the calls it makes.       *)
(* make_move does not look at is_terminal(), so play goes on past a draw;  *)
(* is_draw, is_terminal, result and terminal_result change nothing and are *)
(* operators on the state held.  A caller whose make_move raised calls no  *)
(* more.                                                                   *)
(***************************************************************************)

VARIABLES
    board,             \* MiniChessState.board
    to_move,           \* MiniChessState.to_move
    move_history,      \* MiniChessState.move_history
    halfmove_clock,    \* MiniChessState.halfmove_clock
    position_history,  \* MiniChessState.position_history
    call,              \* the last call made on the state and what it returned
    game,              \* the moves played so far, each with the position it was played in
    agent,             \* the agent instance the caller asks for moves: its fields
    search             \* the locals of the agent's running choose_move or _search call

vars == <<board, to_move, move_history, halfmove_clock, position_history, call, game,
          agent, search>>

\* a caller without an agent, and an agent that is not running a call
NoAgent == [kind |-> "none"]
NoSearch == [pc |-> "idle"]

\* the state the caller holds
Self == MiniChessState(board, to_move, move_history, halfmove_clock, position_history)

NoMove == Move(NoSquare, NoSquare, None)

\* what a call returned: error is "" unless it raised
Call(op, move, error) == [op |-> op, move |-> move, error |-> error]

(***************************************************************************)
(* Recorded games.  Play from initial_state() is explored along these      *)
(* lines and up to MaxStray plies away from them, so that mates, a         *)
(* stalemate, bare kings, a promotion, repetitions and a run of 100 quiet  *)
(* halfmoves are all within reach.  Every line but IgnoredCheckLine is a   *)
(* sequence of legal moves from initial_state().                           *)
(***************************************************************************)

Mv(fr, fc, tr, tc) == Move(<<fr, fc>>, <<tr, tc>>, None)

RECURSIVE Repeat(_, _)
Repeat(seq, n) == IF n = 0 THEN <<>> ELSE seq \o Repeat(seq, n - 1)

\* 19 plies: every piece but the kings and a blocked pair of pawns is captured
OpeningLine ==
    << Mv(1, 3, 2, 3), Mv(3, 2, 2, 3), Mv(0, 3, 2, 3),
       Mv(4, 3, 1, 0), Mv(0, 0, 1, 0), Mv(3, 4, 2, 3),
       Mv(1, 4, 2, 3), Mv(3, 0, 2, 0), Mv(0, 1, 2, 0),
       Mv(4, 0, 2, 0), Mv(1, 0, 2, 0), Mv(3, 1, 2, 0),
       Mv(1, 1, 2, 0), Mv(4, 2, 2, 0), Mv(0, 2, 2, 0),
       Mv(4, 1, 2, 0), Mv(0, 4, 1, 3), Mv(2, 0, 1, 2),
       Mv(1, 3, 1, 2) >>

\* both kings step aside and back
KingShuttle == << Mv(4, 4, 4, 3), Mv(0, 0, 0, 1), Mv(4, 3, 4, 4), Mv(0, 1, 0, 0) >>

\* 100 plies from OpeningLine, none a pawn move or a capture: the white king walks
\* to its corner, the kings shuttle, and the last three plies reach new positions
FiftyMoveEnd ==
    << Mv(4, 4, 4, 3), Mv(1, 2, 0, 1), Mv(4, 3, 4, 4), Mv(0, 1, 0, 0) >>
    \o Repeat(KingShuttle, 23)
    \o << Mv(4, 4, 4, 3), Mv(0, 0, 1, 0), Mv(4, 3, 4, 2), Mv(1, 0, 2, 0) >>

\* 4 plies from OpeningLine: Black is stalemated
StalemateEnd ==
    << Mv(4, 4, 4, 3), Mv(1, 2, 2, 1), Mv(4, 3, 4, 4),
       Mv(2, 1, 3, 2) >>

\* 14 plies from OpeningLine: both pawns are captured
BareKingsEnd ==
    << Mv(4, 4, 4, 3), Mv(1, 2, 0, 1), Mv(4, 3, 4, 2),
       Mv(0, 1, 0, 0), Mv(4, 2, 3, 1), Mv(0, 0, 0, 1),
       Mv(3, 1, 2, 2), Mv(0, 1, 1, 0), Mv(2, 2, 2, 3),
       Mv(1, 0, 2, 1), Mv(2, 3, 1, 3), Mv(2, 1, 3, 2),
       Mv(1, 3, 0, 2), Mv(3, 2, 3, 3) >>

\* 5 plies: White checkmates
WhiteMatesLine ==
    << Mv(0, 1, 2, 2), Mv(3, 4, 2, 4), Mv(1, 3, 2, 4),
       Mv(3, 3, 2, 4), Mv(0, 3, 4, 3) >>

\* 6 plies: Black promotes and checkmates
BlackMatesLine ==
    << Mv(1, 2, 2, 2), Mv(3, 3, 2, 2), Mv(0, 3, 3, 0),
       Mv(2, 2, 1, 1), Mv(3, 0, 4, 1), Move(<<1, 1>>, <<0, 2>>, "q") >>

\* 4 plies: a knight takes a pawn with check and the king steps out of it
CheckLine ==
    << Mv(0, 1, 2, 0), Mv(3, 3, 2, 3), Mv(2, 0, 3, 2), Mv(4, 4, 3, 3) >>

\* 5 moves, the fourth illegal: Black pushes a pawn and leaves the king in the
\* knight's check, where the knight could take it; make_move refuses the push
IgnoredCheckLine ==
    SubSeq(CheckLine, 1, 3) \o << Mv(3, 0, 2, 0), Mv(3, 2, 4, 4) >>

Book ==
    << OpeningLine \o FiftyMoveEnd, OpeningLine \o StalemateEnd,
       OpeningLine \o BareKingsEnd, WhiteMatesLine, BlackMatesLine, CheckLine,
       IgnoredCheckLine >>

\* the moves h are the start of a recorded game
OnBook(h) ==
    \E i \in 1..Len(Book) : Len(h) <= Len(Book[i]) /\ SubSeq(Book[i], 1, Len(h)) = h

\* plies played away from the recorded games
MaxStray == 1

\* fewer than MaxStray plies have been played since the game left the recorded lines
NearBook ==
    \E k \in 0..Len(move_history) :
        k > Len(move_history) - MaxStray /\ OnBook(SubSeq(move_history, 1, k))

\* Moves a caller may hand to make_move(validate=True) that legal_moves does not
\* hold: pseudo-legal moves that leave the king attacked, a move of the other
\* side's first piece, a legal move with the promotion field changed, and a move
\* from an empty square.
IllegalAttempts(self) ==
    LET legal == legal_moves(self)
        other == pseudo_moves([self EXCEPT !.to_move = IF self.to_move = "W" THEN "B" ELSE "W"])
        empties == SelectSeq(RowMajor, LAMBDA sq : At(self.board, sq[1], sq[2]) = None)
    IN  (Range(pseudo_moves(self)) \ Range(legal))
        \cup (IF other = <<>> THEN {} ELSE {other[1]})
        \cup (IF legal = <<>> THEN {}
              ELSE {[legal[1] EXCEPT !.promotion = IF @ = None THEN "Q" ELSE None]})
        \cup (IF Len(empties) < 2 THEN {} ELSE {Move(empties[1], empties[2], None)})

\* the caller's state becomes s
Hold(s) ==
    /\ board' = s.board
    /\ to_move' = s.to_move
    /\ move_history' = s.move_history
    /\ halfmove_clock' = s.halfmove_clock
    /\ position_history' = s.position_history

\* what make_move(move) does for each move a caller may hand it in state self:
\* legal_moves() is computed once for all of them
MakeMoveCalls(self) ==
    LET legal == legal_moves(self)
    IN  {[move |-> move, returned |-> make_move_with(self, move, TRUE, legal)] :
            move \in Range(legal) \cup IllegalAttempts(self)}

\* state = state.make_move(move): validate=True, the move is whatever the caller has
MakeMove(more) ==
    /\ call.error = ""
    /\ more
    /\ \E c \in MakeMoveCalls(Self) :
          /\ Hold(c.returned.state)
          /\ call' = Call("make_move", c.move, c.returned.error)
          /\ game' = IF c.returned.error = ""
                     THEN Append(game, [board |-> board, to_move |-> to_move, move |-> c.move])
                     ELSE game
          /\ UNCHANGED <<agent, search>>

\* state = state.make_move(move, validate=False), the move taken from legal_moves()
PlayMove(more) ==
    /\ call.error = ""
    /\ more
    /\ \E move \in Range(legal_moves(Self)) :
          LET r == make_move(Self, move, FALSE)
          IN  /\ Hold(r.state)
              /\ call' = Call("make_move", move, r.error)
              /\ game' = Append(game, [board |-> board, to_move |-> to_move, move |-> move])
              /\ UNCHANGED <<agent, search>>

\* the caller starts with s
Start(s) ==
    /\ board = s.board
    /\ to_move = s.to_move
    /\ move_history = s.move_history
    /\ halfmove_clock = s.halfmove_clock
    /\ position_history = s.position_history

Init ==
    /\ Start(initial_state)
    /\ call = Call("init", NoMove, "")
    /\ game = <<>>
    /\ agent = NoAgent
    /\ search = NoSearch

Next ==
    \/ MakeMove(NearBook)
    \/ PlayMove(NearBook)

Spec == Init /\ [][Next]_vars


(***************************************************************************)
(* Constructed positions: the boards the unit tests build directly with    *)
(* MiniChessState(board=..., to_move=...), and the boards with two kings   *)
(* and at most one queen.  A king may be capturable or missing in them.    *)
(***************************************************************************)

EmptyRow == [i \in 1..BOARD_SIZE |-> None]

\* tests/test_mcts_agent.py: empty_board
EmptyBoard == [i \in 1..BOARD_SIZE |-> EmptyRow]

\* the board with piece on square sq
Put(b, sq, piece) == [b EXCEPT ![sq[1] + 1][sq[2] + 1] = piece]

\* tests/test_minimax_agent.py, tests/test_mcts_agent.py
TestBoards ==
    { << <<"K", None, None, None, None>>,
         <<"R", None, None, None, None>>,
         EmptyRow,
         EmptyRow,
         <<"k", None, None, None, None>> >>,
      << <<"R", None, None, None, "K">>,
         EmptyRow,
         EmptyRow,
         EmptyRow,
         <<"r", None, None, None, "k">> >>,
      << <<None, None, None, None, "K">>,
         <<"Q", None, None, None, None>>,
         EmptyRow,
         EmptyRow,
         <<None, None, None, "k", None>> >>,
      << <<"R", None, "Q", None, "K">>,
         EmptyRow,
         EmptyRow,
         EmptyRow,
         <<"r", None, None, None, "k">> >>,
      << <<None, None, None, None, "K">>,
         <<None, None, "R", None, None>>,
         <<None, "p", "q", None, None>>,
         <<None, "k", None, None, None>>,
         EmptyRow >>,
      << <<"q", None, None, None, "k">>,
         <<None, None, None, "K", None>>,
         EmptyRow,
         EmptyRow,
         EmptyRow >>,
      EmptyBoard }

\* a king facing a cornered king: White's to win, and the same turned around
WhiteKingsOnly == Put(Put(EmptyBoard, <<2, 1>>, "K"), <<4, 0>>, "k")
BlackKingsOnly == Put(Put(EmptyBoard, <<2, 3>>, "k"), <<0, 4>>, "K")

\* the boards of b with one more piece on an empty square
WithPiece(b, piece) ==
    {Put(b, RowMajor[i], piece) :
        i \in {j \in 1..Len(RowMajor) : At(b, RowMajor[j][1], RowMajor[j][2]) = None}}

PosBoards ==
    TestBoards \cup {WhiteKingsOnly, BlackKingsOnly}
    \cup WithPiece(WhiteKingsOnly, "Q") \cup WithPiece(BlackKingsOnly, "q")

\* the halfmove clocks a constructed state starts with
PosClocks == {0, FIFTY_MOVE_HALFMOVES - 1}

\* plies played from a constructed position
MaxPosPlies == 1

InitPos ==
    /\ \E b \in PosBoards, side \in {"W", "B"}, clock \in PosClocks :
          Start(MiniChessState(b, side, <<>>, clock, <<>>))
    /\ call = Call("init", NoMove, "")
    /\ game = <<>>
    /\ agent = NoAgent
    /\ search = NoSearch

NextPos ==
    \/ MakeMove(Len(move_history) < MaxPosPlies)
    \/ PlayMove(Len(move_history) < MaxPosPlies)

SpecPos == InitPos /\ [][NextPos]_vars


(***************************************************************************)
(* Notions the claims are stated with                                      *)
(***************************************************************************)

Squares == Range(RowMajor)

Opponent(color) == IF color = "W" THEN "B" ELSE "W"

KingOf(color) == IF color = "W" THEN "K" ELSE "k"

\* how many squares of board b hold piece
OnBoard(b, piece) == Cardinality({sq \in Squares : At(b, sq[1], sq[2]) = piece})

\* color's king is attacked on board b; a missing king counts as attacked
KingAttacked(b, color) ==
    \/ OnBoard(b, KingOf(color)) = 0
    \/ \E sq \in Squares :
          /\ At(b, sq[1], sq[2]) = KingOf(color)
          /\ _square_attacked(b, sq[1], sq[2], Opponent(color))

\* nothing but kings is on board b
OnlyKings(b) == \A sq \in Squares : At(b, sq[1], sq[2]) \in {None, "K", "k"}

\* the move of game entry e moved a pawn or landed on an occupied square
PawnMoveOrCapture(e) ==
    \/ At(e.board, e.move.from_sq[1], e.move.from_sq[2]) \in {"P", "p"}
    \/ At(e.board, e.move.to_sq[1], e.move.to_sq[2]) # None

\* the number of most recent moves of the game that moved no pawn and captured nothing
QuietRun ==
    LET loud == {i \in 1..Len(game) : PawnMoveOrCapture(game[i])}
    IN  IF loud = {} THEN Len(game)
        ELSE Len(game) - (CHOOSE i \in loud : \A j \in loud : j <= i)

\* how often the current (board, side to move) occurred earlier in the game
EarlierOccurrences ==
    Cardinality({i \in 1..Len(game) : game[i].board = board /\ game[i].to_move = to_move})

\* the last call was a make_move that returned a state
Moved == call.op = "make_move" /\ call.error = ""

(***************************************************************************)
(* Claims                                                                  *)
(***************************************************************************)

\* C1: legal_moves(s) is exactly the set of pseudo-legal moves of the side to move
\* after which that side's own king is not attacked: none of its moves leaves the
\* mover in check, and every pseudo-legal move that keeps the king safe is in it.
C1_LegalMovesExact ==
    Range(legal_moves(Self))
        = {m \in Range(pseudo_moves(Self)) : ~KingAttacked(_apply_move(board, m), to_move)}

\* a position reached by play where a pseudo-legal move is left out and another is kept
C1_Witness ==
    /\ Moved
    /\ legal_moves(Self) # <<>>
    /\ Range(pseudo_moves(Self)) \ Range(legal_moves(Self)) # {}

\* C2: every state reached from initial_state() by make_move calls with moves from
\* legal_moves has exactly one white king and exactly one black king on the board.
C2_OneKingEach == OnBoard(board, "K") = 1 /\ OnBoard(board, "k") = 1

\* a king has just moved out of check
C2_Witness ==
    /\ Moved
    /\ Upper(At(board, call.move.to_sq[1], call.move.to_sq[2])) = "K"
    /\ KingAttacked(game[Len(game)].board, game[Len(game)].to_move)

\* C3: make_move(move, validate=True) raises the illegal-move error if and only if
\* move is not in legal_moves(state); when it raises, the state is unchanged.
C3_RaisesIffIllegal ==
    [][call'.op = "make_move" =>
          /\ (call'.error = "Illegal move") <=> (call'.move \notin Range(legal_moves(Self)))
          /\ call'.error \in {"", "Illegal move"}
          /\ call'.error # "" =>
                UNCHANGED <<board, to_move, move_history, halfmove_clock, position_history>>
      ]_vars

\* a pseudo-legal move that leaves the mover's king attacked was refused
C3_Witness ==
    /\ call.op = "make_move"
    /\ call.error = "Illegal move"
    /\ call.move \in Range(pseudo_moves(Self))

\* C4: for a legal move m, make_move(m) returns a state with the other side to move,
\* m appended to the move history, (s.board, s.to_move) appended to the position
\* history, and the halfmove clock 0 if m moves a pawn or lands on an occupied
\* square and s.halfmove_clock + 1 otherwise.
C4_SuccessorFields ==
    [][(call'.op = "make_move" /\ call'.error = "") =>
          LET m == call'.move
          IN  /\ m \in Range(legal_moves(Self))
              /\ to_move' = Opponent(to_move)
              /\ move_history' = Append(move_history, m)
              /\ position_history' = Append(position_history, <<board, to_move>>)
              /\ halfmove_clock' =
                    IF \/ At(board, m.from_sq[1], m.from_sq[2]) \in {"P", "p"}
                       \/ At(board, m.to_sq[1], m.to_sq[2]) # None
                    THEN 0 ELSE halfmove_clock + 1
      ]_vars

\* a piece that is no pawn has captured after a run of quiet moves
C4_Witness ==
    /\ Moved
    /\ halfmove_clock = 0
    /\ Len(game) > 2
    /\ At(game[Len(game)].board, call.move.from_sq[1], call.move.from_sq[2]) \notin {"P", "p"}
    /\ ~PawnMoveOrCapture(game[Len(game) - 1])

\* C5: after 100 consecutive legal halfmoves none of which moves a pawn or captures
\* a piece, is_draw() is true.
C5_FiftyMoveRule == QuietRun >= 100 => is_draw(Self)

\* 100 quiet halfmoves have led to a position that is new and has more than kings
C5_Witness ==
    /\ QuietRun >= 100
    /\ EarlierOccurrences = 0
    /\ ~OnlyKings(board)

\* C6: a state whose (board, side to move) occurred at least twice earlier in the
\* game has is_draw() true; and repetition alone (the clock below 100, more than
\* kings on the board) makes is_draw() true only with two earlier occurrences.
C6_ThreefoldRepetition ==
    /\ EarlierOccurrences >= 2 => is_draw(Self)
    /\ (is_draw(Self) /\ halfmove_clock < 100 /\ ~OnlyKings(board)) => EarlierOccurrences >= 2

\* the third occurrence of a position, a draw by repetition alone
C6_Witness ==
    /\ EarlierOccurrences = 2
    /\ halfmove_clock < 100
    /\ ~OnlyKings(board)
    /\ is_draw(Self)

\* C7: result() fails with the game-not-finished error exactly when is_terminal() is
\* false; on a terminal state it returns 0 if is_draw(), otherwise +1 if Black is to
\* move and in check, -1 if White is to move and in check, and 0 (stalemate) if the
\* side to move has no legal moves and is not in check.
C7_Result ==
    LET draw == is_draw(Self)
        terminal == draw \/ legal_moves(Self) = <<>>
        in_check == KingAttacked(board, to_move)
        returned == result(Self)
    IN  /\ is_terminal(Self) = terminal
        /\ returned.error = (IF terminal THEN "" ELSE "Game not finished")
        /\ terminal =>
              returned.value =
                  IF draw THEN 0
                  ELSE IF in_check THEN (IF to_move = "B" THEN 1 ELSE -1)
                  ELSE 0

\* White is checkmated in a game played from the initial state
C7_Witness ==
    /\ Moved
    /\ ~is_draw(Self)
    /\ result(Self) = [error |-> "", value |-> -1]

\* C8: terminal_result(s) agrees with the separate operations: its first component
\* is is_terminal(s), its second is result(s) when s is terminal and 0 otherwise.
C8_TerminalResultAgrees ==
    LET terminal == is_terminal(Self)
    IN  terminal_result(Self) = <<terminal, IF terminal THEN result(Self).value ELSE 0>>

\* Black is checkmated: both report a finished game won by White
C8_Witness ==
    /\ Moved
    /\ terminal_result(Self) = <<TRUE, 1>>
    /\ result(Self) = [error |-> "", value |-> 1]

\* C9: in every non-terminal state legal_moves is nonempty, and for every legal move
\* m, make_move(m, validate=True) succeeds and yields a state in which the opponent
\* is to move and every legal move starts from a square holding a piece of the
\* opponent's color.
C9_MoveRoundTrip ==
    ~is_terminal(Self) =>
        LET legal == legal_moves(Self)
        IN  /\ legal # <<>>
            /\ \A m \in Range(legal) :
                  LET r == make_move_with(Self, m, TRUE, legal)
                  IN  /\ r.error = ""
                      /\ r.state.to_move = Opponent(to_move)
                      /\ \A m2 \in Range(legal_moves(r.state)) :
                            LET piece == At(r.state.board, m2.from_sq[1], m2.from_sq[2])
                            IN  piece # None /\ _piece_color(piece) = Opponent(to_move)

\* a non-terminal state reached by play in which White has moves to make
C9_Witness ==
    /\ Moved
    /\ Len(game) > 1
    /\ to_move = "W"
    /\ ~is_terminal(Self)
    /\ legal_moves(Self) # <<>>

\* C10: a position in which the only pieces on the board are kings is terminal with
\* is_draw() true and result() 0, whoever is to move and whatever the histories and
\* the halfmove clock are.
C10_OnlyKingsDraw ==
    OnlyKings(board) =>
        /\ is_draw(Self)
        /\ is_terminal(Self)
        /\ result(Self) = [error |-> "", value |-> 0]

\* the last piece but the kings has just been captured, with a move still to play
C10_Witness ==
    /\ Moved
    /\ OnlyKings(board)
    /\ OnBoard(board, "K") = 1 /\ OnBoard(board, "k") = 1
    /\ halfmove_clock = 0
    /\ position_history # <<>>
    /\ legal_moves(Self) # <<>>

\* C11: from the initial state legal_moves() returns exactly seven moves, the two
\* knight moves and the five single pawn pushes, and every call returns that same
\* list in that same order.
C11_InitialMoves ==
    (board = initial_board /\ to_move = "W") =>
        /\ Len(legal_moves(Self)) = 7
        /\ legal_moves(Self)
              = << Mv(0, 1, 2, 2), Mv(0, 1, 2, 0) >>
                    \o [c \in 1..BOARD_SIZE |-> Mv(1, c - 1, 2, c - 1)]
        /\ legal_moves(initial_state) = legal_moves(Self)

\* the state initial_state() returns, before any move
C11_Witness ==
    /\ Self = initial_state
    /\ game = <<>>
    /\ call.op = "init"


(***************************************************************************)
(* Agents.  An agent instance is a record of its fields.  Time is what     *)
(* time.perf_counter() returns: the n-th reading returns n, so a time      *)
(* limit counts readings of the clock, and the deadline passes at a        *)
(* different point of a search for each limit.  A score is an integer;     *)
(* math.inf is Infinity, which no score reaches.                           *)
(***************************************************************************)

\* evaluation.py: MATERIAL
MATERIAL(kind) ==
    CASE kind = "P" -> 1
      [] kind = "N" -> 3
      [] kind = "B" -> 3
      [] kind = "R" -> 5
      [] kind = "Q" -> 9
      [] kind = "K" -> 1000

\* math.inf
Infinity == 1000000

\* the score of a decided game, in _search
TERMINAL_SCORE == 10000

\* the score from which choose_move stops deepening
WINNING_SCORE == 9000

Max(a, b) == IF a >= b THEN a ELSE b
Min(a, b) == IF a <= b THEN a ELSE b

RECURSIVE SumFrom(_, _, _)
SumFrom(f, i, n) == IF i > n THEN 0 ELSE f[i] + SumFrom(f, i + 1, n)

\* evaluation.py: material_balance, White's material minus Black's
material_balance(state) ==
    LET worth(sq) ==
            LET piece == At(state.board, sq[1], sq[2])
            IN  IF piece = None THEN 0
                ELSE IF IsUpper(piece) THEN MATERIAL(Upper(piece))
                ELSE 0 - MATERIAL(Upper(piece))
    IN  SumFrom([i \in 1..Len(RowMajor) |-> worth(RowMajor[i])], 1, Len(RowMajor))

\* MinimaxAgent._evaluate
_evaluate(state, perspective) ==
    IF perspective = "W" THEN material_balance(state) ELSE 0 - material_balance(state)

\* is the move a capture in state
IsCapture(state, m) == At(state.board, m.to_sq[1], m.to_sq[2]) # None

\* move_score in _order_moves_with_pv
move_score(state, m, pv_move) ==
    IF m = pv_move THEN 1000
    ELSE IF IsCapture(state, m)
         THEN 100 + MATERIAL(Upper(At(state.board, m.to_sq[1], m.to_sq[2])))
         ELSE 0

\* the values move_score takes, highest first
MoveScores == <<1100, 1000, 109, 105, 103, 101, 0>>

\* sorted(moves, key=move_score, reverse=True): a stable sort, so moves with one
\* score keep the order they have in moves
_order_moves_with_pv(state, moves, pv_move) ==
    Extend([k \in 1..Len(MoveScores) |->
               SelectSeq(moves, LAMBDA m : move_score(state, m, pv_move) = MoveScores[k])],
           Len(MoveScores))

Reverse(seq) == [i \in 1..Len(seq) |-> seq[Len(seq) + 1 - i]]

\* the orders in which a node's moves may be examined: the agent's own, and three
\* others a different ordering heuristic would give
Orders == <<"pv_first", "pv_last", "generated", "generated_reversed">>

Examined(order, state, moves, pv_move) ==
    CASE order = "pv_first" -> _order_moves_with_pv(state, moves, pv_move)
      [] order = "pv_last" -> Reverse(_order_moves_with_pv(state, moves, pv_move))
      [] order = "generated" -> moves
      [] order = "generated_reversed" -> Reverse(moves)

\* time_limit=None and deadline = None
NoTime == 0 - 1

\* a reading of time.perf_counter() in _timed_out: no reading without a deadline
_timed_out(self, deadline) == deadline # NoTime /\ self.clock >= deadline
Read(self, deadline) == IF deadline = NoTime THEN self ELSE [self EXCEPT !.clock = @ + 1]

\* the transposition table: a function on the keys (board, to_move) stored so far
NoTable == [key \in {} |-> None]
Store(tt, key, entry) == (key :> entry) @@ tt

\* self._tt.clear() left undone
_tt_kept(tt) == tt

\* self._tt.clear()
_tt_clear(tt) == NoTable

\* the flag _search stores with a value, from alpha and beta as the loop left them
TTFlag(value, alpha, beta) ==
    IF value <= alpha THEN "UPPER" ELSE IF value >= beta THEN "LOWER" ELSE "EXACT"

(***************************************************************************)
(* The caller of an agent, as in examples/match_runner.py play_game: it     *)
(* asks the agent for a move in the state it holds and plays the move with *)
(* validate=False.  It also asks in states play_game would not ask in, and *)
(* may ask again in the same state; call.answers keeps what it was         *)
(* answered, each move with the state it was asked in.  A caller whose     *)
(* choose_move raised calls no more.                                       *)
(***************************************************************************)

\* how often the caller asks in one state, and how many moves it plays
MaxAsks == 2
MaxAgentPlies == 1

Asked(state) == Len(SelectSeq(call.answers, LAMBDA a : a.state = state))

\* the caller asks again for a state only if the agent has no time limit and draws
\* no move at random
AsksOnce ==
    \/ agent.kind = "random"
    \/ agent.kind \in {"minimax", "mcts"} /\ agent.time_limit # NoTime

MayAsk ==
    /\ search.pc = "idle"
    /\ call.error = ""
    /\ Asked(Self) < (IF AsksOnce THEN 1 ELSE MaxAsks)

\* choose_move returned move
Answered(move) ==
    [call EXCEPT !.op = "choose_move", !.move = move, !.error = "",
                 !.answers = Append(@, [state |-> Self, move |-> move])]

\* state = state.make_move(move, validate=False) with the move the agent returned
Play ==
    /\ search.pc = "idle"
    /\ call.op = "choose_move"
    /\ call.error = ""
    /\ Len(move_history) < MaxAgentPlies
    /\ Hold(make_move_with(Self, call.move, FALSE, <<>>).state)
    /\ call' = [call EXCEPT !.op = "make_move"]
    /\ game' = Append(game, [board |-> board, to_move |-> to_move, move |-> call.move])
    /\ UNCHANGED <<agent, search>>

\* the caller starts in state s with agent a
StartAgent(s, a) ==
    /\ Start(s)
    /\ agent = a
    /\ search = NoSearch
    /\ call = [op |-> "init", move |-> NoMove, error |-> "", answers |-> <<>>]
    /\ game = <<>>

(***************************************************************************)
(* The random source.  random.Random(seed) is a deterministic generator:   *)
(* its state after a number of draws is a function of the seed and of the  *)
(* draws made.  Its stream is modelled by a linear congruential generator  *)
(* on 16 bits.  A source that nobody seeded (seed None, or the random      *)
(* module itself) may give any element.                                    *)
(***************************************************************************)

RngModulus == 65536
RngMultiplier == 25173
RngIncrement == 13849

NoSeed == 0 - 1

\* a source seeded from the seed and from what the caller has been answered so far
Random_reseeded(seed) ==
    [seeded |-> TRUE, x |-> (seed + Len(call.answers)) % RngModulus]

\* random.Random(seed)
Random(seed) ==
    IF seed = NoSeed THEN [seeded |-> FALSE, x |-> 0]
    ELSE [seeded |-> TRUE, x |-> seed % RngModulus]

\* rng.choice(seq) for a seq of n elements: the index (from 1) of the element
\* chosen and the source afterwards, for every outcome there can be
choice(rng, n) ==
    IF rng.seeded
    THEN LET x == (rng.x * RngMultiplier + RngIncrement) % RngModulus
         IN  {[index |-> ((x \div 256) % n) + 1, rng |-> [rng EXCEPT !.x = x]]}
    ELSE {[index |-> i, rng |-> rng] : i \in 1..n}

(***************************************************************************)
(* What every choose_move starts with, and RandomAgent and GreedyAgent,    *)
(* whose choose_move has no loop over the clock: one step each.            *)
(***************************************************************************)

NoMovesError == "No legal moves available."

\* if not moves: raise ValueError("No legal moves available.")
Raises(moves) == moves = <<>>

\* choose_move returning no move where it raises
Failed_silently ==
    [call EXCEPT !.op = "choose_move", !.move = NoMove, !.error = "",
                 !.answers = Append(@, [state |-> Self, move |-> NoMove])]

\* choose_move raised
Failed == [call EXCEPT !.op = "choose_move", !.move = NoMove, !.error = NoMovesError]

RandomAgent(seed) == [kind |-> "random", _rng |-> Random(seed)]

RandomChooseMove ==
    /\ agent.kind = "random"
    /\ MayAsk
    /\ \E moves \in {legal_moves(Self)} :
          IF Raises(moves)
          THEN call' = Failed /\ UNCHANGED agent
          ELSE \E c \in choice(agent._rng, Len(moves)) :
                  /\ call' = Answered(moves[c.index])
                  /\ agent' = [agent EXCEPT !._rng = c.rng]
    /\ UNCHANGED <<board, to_move, move_history, halfmove_clock, position_history,
                   game, search>>

GreedyAgent == [kind |-> "greedy"]

\* GreedyAgent._material_score: the balance seen by the side to move in state
_material_score(state) ==
    IF state.to_move = "W" THEN material_balance(state) ELSE 0 - material_balance(state)

\* the loop of GreedyAgent.choose_move from the i-th move on, with the index of the
\* best move so far
RECURSIVE GreedyLoop(_, _, _)
GreedyLoop(scores, i, best) ==
    IF i > Len(scores) THEN best
    ELSE GreedyLoop(scores, i + 1, IF scores[i] > scores[best] THEN i ELSE best)

GreedyChoice(state, moves) ==
    LET scores == [i \in 1..Len(moves) |->
                      _material_score(make_move_with(state, moves[i], FALSE, <<>>).state)]
    IN  moves[GreedyLoop(scores, 2, 1)]

GreedyChooseMove ==
    /\ agent.kind = "greedy"
    /\ MayAsk
    /\ \E moves \in {legal_moves(Self)} :
          IF Raises(moves)
          THEN call' = Failed
          ELSE call' = Answered(GreedyChoice(Self, moves))
    /\ UNCHANGED <<board, to_move, move_history, halfmove_clock, position_history,
                   game, agent, search>>

(***************************************************************************)
(* MinimaxAgent.  A choose_move call runs as a sequence of steps on the     *)
(* call's locals: search holds those of choose_move itself and, in stack,  *)
(* one frame for every _search call that is inside its loop, the innermost *)
(* last.  search.clock is the next reading of the clock.                   *)
(***************************************************************************)

\* MinimaxAgent(depth, time_limit); order is the instance's _order_moves_with_pv
MinimaxAgent(depth, time_limit, order) ==
    [kind |-> "minimax", depth |-> depth, time_limit |-> time_limit, _tt |-> NoTable,
     order |-> order]

\* the locals of a call: of choose_move when pc is not "direct", and the _search
\* frames; a caller of _search itself has pc = "direct".  timeouts counts the
\* _search calls of this call that returned because the deadline had passed
Locals(pc, deadline, clock, maximizing_color, order, moves) ==
    [pc |-> pc, deadline |-> deadline, clock |-> clock,
     maximizing_color |-> maximizing_color, order |-> order,
     moves |-> moves,
     best_move |-> IF moves = <<>> THEN NoMove ELSE moves[1],
     best_score |-> 0 - Infinity,
     current_depth |-> 1, ordered_moves |-> <<>>, i |-> 1,
     iteration_best_move |-> NoMove, iteration_best_score |-> 0 - Infinity,
     alpha |-> 0 - Infinity,
     iterations |-> <<>>,
     timeouts |-> 0,
     stack |-> <<>>,
     value |-> 0]

\* a terminal score that forgets whose search it is
terminal_score_for_white(terminal_result_, maximizing_color) ==
    terminal_result_ * TERMINAL_SCORE

\* the score _search returns for a terminal state
terminal_score(terminal_result_, maximizing_color) ==
    IF maximizing_color = "W" THEN terminal_result_ * TERMINAL_SCORE
    ELSE 0 - terminal_result_ * TERMINAL_SCORE

\* _search from its first line to its loop: either it returns a value at once, or
\* it enters the loop with a frame.  The frame keeps, beside the locals, the alpha
\* and beta the call was made with (alpha0, beta0) and what timeouts was then
Returns(value) == [returned |-> TRUE, value |-> value, frame |-> <<>>]

_search_enter(tt, s, state, depth, alpha, beta) ==
    IF _timed_out(s, s.deadline)
    THEN Returns(_evaluate(state, s.maximizing_color))
    ELSE
    LET terminal == terminal_result(state)
    IN  IF terminal[1]
        THEN Returns(terminal_score(terminal[2], s.maximizing_color))
        ELSE IF depth <= 0
        THEN Returns(_evaluate(state, s.maximizing_color))
        ELSE
        LET tt_key == <<state.board, state.to_move>>
            hit == tt_key \in DOMAIN tt
            tt_entry == tt[tt_key]
            usable == hit /\ tt_entry.depth >= depth
            tt_move == IF hit THEN tt_entry.move ELSE NoMove
            alpha1 == IF usable /\ tt_entry.flag = "LOWER"
                      THEN Max(alpha, tt_entry.score) ELSE alpha
            beta1 == IF usable /\ tt_entry.flag = "UPPER"
                     THEN Min(beta, tt_entry.score) ELSE beta
        IN  IF usable /\ (tt_entry.flag = "EXACT" \/ alpha1 >= beta1)
            THEN Returns(tt_entry.score)
            ELSE [returned |-> FALSE, value |-> 0,
                  frame |-> [state |-> state, depth |-> depth,
                             alpha |-> alpha1, beta |-> beta1,
                             ordered_moves |-> Examined(s.order, state, legal_moves(state),
                                                        tt_move),
                             i |-> 1,
                             value |-> IF state.to_move = s.maximizing_color
                                       THEN 0 - Infinity ELSE Infinity,
                             best_move_here |-> NoMove,
                             left |-> FALSE,
                             alpha0 |-> alpha, beta0 |-> beta,
                             timeouts0 |-> s.timeouts]]

\* one pass of the loop of _search, after the child's value came back: the frame,
\* and the clock after the test that ends the pass
_search_pass(f, child_value, s) ==
    LET maximizing_turn == f.state.to_move = s.maximizing_color
        better == IF maximizing_turn THEN child_value > f.value ELSE child_value < f.value
        value == IF better THEN child_value ELSE f.value
        alpha == IF maximizing_turn THEN Max(f.alpha, value) ELSE f.alpha
        beta == IF maximizing_turn THEN f.beta ELSE Min(f.beta, value)
    IN  [frame |-> [f EXCEPT !.value = value,
                             !.best_move_here = IF better THEN f.ordered_moves[f.i] ELSE @,
                             !.alpha = alpha,
                             !.beta = beta,
                             !.i = @ + 1,
                             !.left = beta <= alpha \/ _timed_out(s, s.deadline)],
         clock |-> IF beta <= alpha THEN s.clock ELSE Read(s, s.deadline).clock]

\* _search after its loop, storing its value whatever the clock reads
_search_leave_unconditional(tt, f, s) ==
    [_tt |-> Store(tt, <<f.state.board, f.state.to_move>>,
                   [depth |-> f.depth, score |-> f.value,
                    flag |-> TTFlag(f.value, f.alpha, f.beta),
                    move |-> f.best_move_here]),
     clock |-> Read(s, s.deadline).clock,
     value |-> f.value]

\* _search after its loop: the table, the clock and the value returned
_search_leave(tt, f, s) ==
    [_tt |-> IF _timed_out(s, s.deadline) THEN tt
             ELSE Store(tt, <<f.state.board, f.state.to_move>>,
                        [depth |-> f.depth, score |-> f.value,
                         flag |-> TTFlag(f.value, f.alpha, f.beta),
                         move |-> f.best_move_here]),
     clock |-> Read(s, s.deadline).clock,
     value |-> f.value]

\* the loop of choose_move over the ordered moves, after a move's score came back
RootPass(s, score) ==
    LET better == score > s.iteration_best_score
        best == IF better THEN score ELSE s.iteration_best_score
    IN  [s EXCEPT !.iteration_best_score = best,
                  !.iteration_best_move = IF better THEN s.ordered_moves[s.i] ELSE @,
                  !.alpha = Max(@, best),
                  !.i = @ + 1]

\* the innermost _search call and whether its loop is over
Top == search.stack[Len(search.stack)]
Searching == search.pc \in {"moves", "direct"} /\ search.stack # <<>>
LoopOver(f) == f.left \/ f.i > Len(f.ordered_moves)

\* a value comes back to the caller of the innermost call, with the table tt, the
\* clock at clock and the stack below the call: the table and the locals after it
Delivered(value, tt, clock, below, s) ==
    IF below # <<>>
    THEN LET pass == _search_pass(below[Len(below)], value, [s EXCEPT !.clock = clock])
         IN  [_tt |-> tt,
              search |-> [s EXCEPT !.clock = pass.clock,
                                   !.stack = [below EXCEPT ![Len(below)] = pass.frame]]]
    ELSE IF s.pc = "direct"
    THEN [_tt |-> tt,
          search |-> [s EXCEPT !.pc = "done", !.clock = clock, !.stack = <<>>,
                               !.value = value]]
    ELSE [_tt |-> tt, search |-> RootPass([s EXCEPT !.clock = clock, !.stack = <<>>], value)]

\* a _search call made from the loop of the innermost call
Descended(tt, s) ==
    LET top == s.stack[Len(s.stack)]
        child == make_move_with(top.state, top.ordered_moves[top.i], FALSE, <<>>).state
        entered == _search_enter(tt, s, child, top.depth - 1, top.alpha, top.beta)
        clock == Read(s, s.deadline).clock
    IN  IF entered.returned
        THEN Delivered(entered.value, tt, clock, s.stack,
                       [s EXCEPT !.timeouts = IF _timed_out(s, s.deadline) THEN @ + 1 ELSE @])
        ELSE [_tt |-> tt,
              search |-> [s EXCEPT !.clock = clock, !.stack = Append(@, entered.frame)]]

\* the innermost _search call leaving its loop, storing its value and returning it
Ascended(tt, s) ==
    LET left == _search_leave(tt, s.stack[Len(s.stack)], s)
    IN  Delivered(left.value, left._tt, left.clock, SubSeq(s.stack, 1, Len(s.stack) - 1), s)

\* the head of the loop over the ordered moves of the root, and the _search call
\* for the move
RootMoved(tt, s, state) ==
    IF s.i > Len(s.ordered_moves)
    THEN [_tt |-> tt, search |-> [s EXCEPT !.pc = "commit"]]
    ELSE IF _timed_out(s, s.deadline)
    THEN [_tt |-> tt, search |-> [Read(s, s.deadline) EXCEPT !.pc = "commit"]]
    ELSE LET tested == Read(s, s.deadline)
             child == make_move_with(state, s.ordered_moves[s.i], FALSE, <<>>).state
             entered == _search_enter(tt, tested, child, s.current_depth - 1, s.alpha,
                                      Infinity)
             clock == Read(tested, s.deadline).clock
         IN  IF entered.returned
             THEN [_tt |-> tt,
                   search |-> RootPass([s EXCEPT
                                           !.clock = clock,
                                           !.timeouts = IF _timed_out(tested, s.deadline)
                                                        THEN @ + 1 ELSE @],
                                       entered.value)]
             ELSE [_tt |-> tt,
                   search |-> [s EXCEPT !.clock = clock, !.stack = <<entered.frame>>]]

\* the head of the loop over current_depth
Deepened(s, depth, state) ==
    IF s.current_depth > depth
    THEN [s EXCEPT !.pc = "return"]
    ELSE IF _timed_out(s, s.deadline)
    THEN [Read(s, s.deadline) EXCEPT !.pc = "return"]
    ELSE LET ordered_moves == Examined(s.order, state, s.moves, s.best_move)
         IN  [Read(s, s.deadline) EXCEPT
                 !.pc = "moves",
                 !.ordered_moves = ordered_moves,
                 !.i = 1,
                 !.iteration_best_move = ordered_moves[1],
                 !.iteration_best_score = 0 - Infinity,
                 !.alpha = 0 - Infinity]

\* the iteration's best move taken although the deadline has passed
Committed_late(s) ==
    LET tested == Read(s, s.deadline)
        done == [depth |-> s.current_depth, clock |-> s.clock,
                 move |-> s.iteration_best_move, score |-> s.iteration_best_score]
    IN  [tested EXCEPT !.best_move = s.iteration_best_move,
                       !.best_score = s.iteration_best_score,
                       !.iterations = Append(@, done),
                       !.current_depth = @ + 1,
                       !.pc = IF s.iteration_best_score >= WINNING_SCORE
                              THEN "return" ELSE "deepen"]

\* after the loop over the moves: the iteration counts if the deadline has not
\* passed, and a winning score ends the deepening; iterations keeps, for every
\* iteration that got here, its best move and the reading of the clock
Committed(s) ==
    LET completed == ~_timed_out(s, s.deadline)
        tested == Read(s, s.deadline)
        done == [depth |-> s.current_depth, clock |-> s.clock,
                 move |-> s.iteration_best_move, score |-> s.iteration_best_score]
    IN  IF completed
        THEN IF s.iteration_best_score >= WINNING_SCORE
             THEN [tested EXCEPT !.best_move = s.iteration_best_move,
                                 !.best_score = s.iteration_best_score,
                                 !.iterations = Append(@, done),
                                 !.pc = "return"]
             ELSE [tested EXCEPT !.best_move = s.iteration_best_move,
                                 !.best_score = s.iteration_best_score,
                                 !.iterations = Append(@, done),
                                 !.current_depth = @ + 1,
                                 !.pc = "deepen"]
        ELSE [tested EXCEPT !.iterations = Append(@, done),
                            !.current_depth = @ + 1,
                            !.pc = "deepen"]

\* a step of the running call leaves the table and the locals as in r
Run(r) ==
    /\ agent' = [agent EXCEPT !._tt = r._tt]
    /\ search' = r.search
    /\ UNCHANGED <<board, to_move, move_history, halfmove_clock, position_history,
                   call, game>>

Descend ==
    /\ Searching
    /\ ~LoopOver(Top)
    /\ \E r \in {Descended(agent._tt, search)} : Run(r)

Ascend ==
    /\ Searching
    /\ LoopOver(Top)
    /\ \E r \in {Ascended(agent._tt, search)} : Run(r)

\* choose_move is called: it raises, or clears the table and sets the deadline
MinimaxChooseMove ==
    /\ agent.kind = "minimax"
    /\ MayAsk
    /\ \E moves \in {legal_moves(Self)} :
          IF Raises(moves)
          THEN /\ call' = Failed
               /\ UNCHANGED <<agent, search>>
          ELSE /\ agent' = [agent EXCEPT !._tt = _tt_clear(@)]
               /\ search' = IF agent.time_limit = NoTime
                            THEN Locals("deepen", NoTime, 0, to_move, agent.order, moves)
                            ELSE Locals("deepen", agent.time_limit, 1, to_move,
                                        agent.order, moves)
               /\ UNCHANGED call
    /\ UNCHANGED <<board, to_move, move_history, halfmove_clock, position_history, game>>

Deepen ==
    /\ search.pc = "deepen"
    /\ search' = Deepened(search, agent.depth, Self)
    /\ UNCHANGED <<board, to_move, move_history, halfmove_clock, position_history,
                   call, game, agent>>

RootMove ==
    /\ search.pc = "moves"
    /\ search.stack = <<>>
    /\ \E r \in {RootMoved(agent._tt, search, Self)} : Run(r)

Commit ==
    /\ search.pc = "commit"
    /\ search' = Committed(search)
    /\ UNCHANGED <<board, to_move, move_history, halfmove_clock, position_history,
                   call, game, agent>>

\* return best_move
Return ==
    /\ search.pc = "return"
    /\ call' = Answered(search.best_move)
    /\ search' = NoSearch
    /\ UNCHANGED <<board, to_move, move_history, halfmove_clock, position_history,
                   game, agent>>

\* the agents and positions of the unit tests and two more positions, with depths
\* up to MaxDepth and time limits of 1, 2, 4, ... readings of the clock
MaxDepth == 3
MaxTimeLimitLog == 6
TimeLimits == {2 ^ k : k \in 0..MaxTimeLimitLog}

\* a king, a pawn about to promote and a rook
PromotionRace ==
    Put(Put(Put(Put(EmptyBoard, <<0, 2>>, "k"), <<3, 0>>, "P"), <<3, 2>>, "K"), <<4, 4>>, "r")

\* a pawn against a bishop
Fortress ==
    Put(Put(Put(Put(EmptyBoard, <<0, 4>>, "k"), <<1, 2>>, "p"), <<2, 4>>, "B"), <<4, 3>>, "K")

MinimaxBoards == TestBoards \cup {PromotionRace}

InitMinimax ==
    \/ \E b \in MinimaxBoards, side \in {"W", "B"}, depth \in 0..MaxDepth :
          StartAgent(MiniChessState(b, side, <<>>, 0, <<>>),
                     MinimaxAgent(depth, NoTime, "pv_first"))
    \/ \E b \in MinimaxBoards, side \in {"W", "B"}, time_limit \in TimeLimits :
          StartAgent(MiniChessState(b, side, <<>>, 0, <<>>),
                     MinimaxAgent(MaxDepth, time_limit, "pv_first"))

NextMinimax ==
    \/ MinimaxChooseMove
    \/ Deepen
    \/ RootMove
    \/ Descend
    \/ Ascend
    \/ Commit
    \/ Return
    \/ Play

SpecMinimax == InitMinimax /\ [][NextMinimax]_vars

\* deeper searches of one position, with no time limit
DeepBoards == {Fortress}
MaxDeepDepth == 5

InitDeep ==
    \E b \in DeepBoards, side \in {"W", "B"}, depth \in 1..MaxDeepDepth :
        StartAgent(MiniChessState(b, side, <<>>, 0, <<>>),
                   MinimaxAgent(depth, NoTime, "pv_first"))

SpecDeep == InitDeep /\ [][NextMinimax]_vars

(***************************************************************************)
(* A caller of _search itself: for a position, a depth and a maximizing    *)
(* color it asks a new agent for each order in Orders, with the full       *)
(* window and no deadline, and keeps the scores in call.scores.            *)
(***************************************************************************)

SearchBoards == {PromotionRace}

MaxSearchDepth == 4

InitSearch ==
    /\ \E b \in SearchBoards, side \in {"W", "B"} :
          Start(MiniChessState(b, side, <<>>, 0, <<>>))
    /\ \E depth \in 1..MaxSearchDepth, color \in {"W", "B"} :
          /\ agent = MinimaxAgent(depth, NoTime, Orders[1])
          /\ call = [op |-> "init", move |-> NoMove, error |-> "",
                     maximizing_color |-> color, scores |-> <<>>]
    /\ search = NoSearch
    /\ game = <<>>

\* what _search(state, depth, -inf, inf, maximizing_color, None) leaves of the
\* locals when it enters its loop or returns at once
Direct(a, state, maximizing_color) ==
    LET s == Locals("direct", NoTime, 0, maximizing_color, a.order, <<>>)
        entered == _search_enter(a._tt, s, state, a.depth, 0 - Infinity, Infinity)
    IN  IF entered.returned
        THEN [s EXCEPT !.pc = "done", !.value = entered.value]
        ELSE [s EXCEPT !.stack = <<entered.frame>>]

\* the caller asks the agent
DirectSearch ==
    /\ search.pc = "idle"
    /\ Len(call.scores) < Len(Orders)
    /\ search' = Direct(agent, Self, call.maximizing_color)
    /\ UNCHANGED <<board, to_move, move_history, halfmove_clock, position_history,
                   call, game, agent>>

\* the caller notes the score and takes a new agent with the next order
Collect ==
    /\ search.pc = "done"
    /\ call' = [call EXCEPT !.op = "_search",
                            !.scores = Append(@, [order |-> agent.order,
                                                  value |-> search.value,
                                                  stored |-> Cardinality(DOMAIN agent._tt)])]
    /\ agent' = MinimaxAgent(agent.depth, NoTime, Orders[Min(Len(call.scores) + 2, Len(Orders))])
    /\ search' = NoSearch
    /\ UNCHANGED <<board, to_move, move_history, halfmove_clock, position_history, game>>

NextSearch ==
    \/ DirectSearch
    \/ Descend
    \/ Ascend
    \/ Collect

SpecSearch == InitSearch /\ [][NextSearch]_vars

\* C14: with no deadline, the score _search returns for a position at a fixed depth
\* with the full window (-inf, +inf) is the same for every order in which the legal
\* moves at each node are examined.
C14_OrderInvariant ==
    \A i, j \in 1..Len(call.scores) : call.scores[i].value = call.scores[j].value

(***************************************************************************)
(* MCTSAgent.  Floats are kept as integers in units of 1/SCALE: a reward,  *)
(* a node's value, a mean and an exploration term are all SCALE times the  *)
(* number the code holds, rounded towards zero.  A choose_move call runs   *)
(* as a sequence of steps on its locals in search: the head of the loop    *)
(* over the simulations, and inside _run_simulation one pass of the        *)
(* selection loop, the expansion, one pass of the rollout loop, and the    *)
(* backpropagation.                                                        *)
(***************************************************************************)

SCALE == 10000

\* a / b rounded towards zero, for b > 0
Quot(a, b) == IF a >= 0 THEN a \div b ELSE 0 - ((0 - a) \div b)

\* SCALE * math.log(n), for n = 1, 2, ...
LnTable ==
    << 0, 6931, 10986, 13863, 16094, 17918, 19459, 20794, 21972, 23026,
       23979, 24849, 25649, 26391, 27081, 27726, 28332, 28904, 29444, 29957,
       30445, 30910, 31355, 31781, 32189, 32581, 32958, 33322, 33673, 34012,
       34340, 34657, 34965, 35264, 35553, 35835, 36109, 36376, 36636, 36889 >>

Ln(n) == LnTable[n]

\* the integer part of math.sqrt(x), looked for between lo and hi
RECURSIVE IsqrtBetween(_, _, _)
IsqrtBetween(x, lo, hi) ==
    IF lo >= hi THEN lo
    ELSE LET mid == (lo + hi + 1) \div 2
         IN  IF mid * mid <= x THEN IsqrtBetween(x, mid, hi)
             ELSE IsqrtBetween(x, lo, mid - 1)

SqrtLimit == 46340
Isqrt(x) == IsqrtBetween(x, 0, SqrtLimit)

\* math.sqrt(2.0), the default exploration_c
SQRT2 == 14142

\* MCTSAgent(simulations, time_limit, exploration_c, rollout_depth, rollout_policy, seed)
MCTSAgent(simulations, time_limit, exploration_c, rollout_depth, rollout_policy, seed) ==
    [kind |-> "mcts", simulations |-> simulations, time_limit |-> time_limit,
     exploration_c |-> exploration_c, rollout_depth |-> rollout_depth,
     rollout_policy |-> rollout_policy, _rng |-> Random(seed)]

\* the key of a state in the node table
Key(state) == <<state.board, state.to_move>>

NoNodes == [key \in {} |-> None]

\* _Node(state=state, untried_moves=ordered_moves)
_Node(state, untried_moves) ==
    [state |-> state, visits |-> 0, value |-> 0, untried_moves |-> untried_moves,
     children |-> <<>>]

\* _get_node: the table, with a node for the state if it had none; children of a
\* node are kept as the list of its (move, key of the child) items, in the order
\* in which they were linked
_get_node(nodes, state, legal) ==
    IF Key(state) \in DOMAIN nodes THEN nodes
    ELSE LET captures == SelectSeq(legal, LAMBDA m : IsCapture(state, m))
             quiet == SelectSeq(legal, LAMBDA m : ~IsCapture(state, m))
         IN  (Key(state) :> _Node(state, captures \o quiet)) @@ nodes

\* _evaluate_position
_evaluate_position(state) ==
    LET worth(sq) ==
            LET piece == At(state.board, sq[1], sq[2])
            IN  IF piece = None \/ Upper(piece) = "K" THEN 0 ELSE MATERIAL(Upper(piece))
        total_material ==
            SumFrom([i \in 1..Len(RowMajor) |-> worth(RowMajor[i])], 1, Len(RowMajor))
    IN  Quot(material_balance(state) * SCALE, Max(total_material, 20))

\* the index of the last item with the greatest key
LastMax(keys) ==
    CHOOSE i \in 1..Len(keys) :
        /\ \A j \in 1..Len(keys) : keys[j] <= keys[i]
        /\ \A j \in (i + 1)..Len(keys) : keys[j] < keys[i]

\* max(items, key=...): the index of the first item with the greatest key
FirstMax(keys) ==
    CHOOSE i \in 1..Len(keys) :
        /\ \A j \in 1..Len(keys) : keys[j] <= keys[i]
        /\ \A j \in 1..(i - 1) : keys[j] < keys[i]

\* score in _select_child
UcbScore(node, child, exploration_c) ==
    IF child.visits = 0 THEN Infinity
    ELSE LET sign == IF node.state.to_move # child.state.to_move THEN 0 - 1 ELSE 1
             mean == sign * Quot(child.value, child.visits)
             explore == Quot(exploration_c
                                * Isqrt(Quot(Ln(node.visits) * SCALE, child.visits)),
                             SCALE)
         IN  mean + explore

\* _select_child, after its assertion: the key of the child selected
_select_child(nodes, node, exploration_c) ==
    LET scores == [i \in 1..Len(node.children) |->
                      UcbScore(node, nodes[node.children[i].node], exploration_c)]
    IN  node.children[FirstMax(scores)].node

AssertionMessage == "select_child called before node was visited"

\* the move after the loop, with nothing to fall back on
RobustChild_no_fallback(nodes, root, legal) ==
    LET children == nodes[root].children
    IN  IF children = <<>> THEN NoMove
        ELSE children[FirstMax([i \in 1..Len(children) |->
                                   nodes[children[i].node].visits])].move

\* the move choose_move returns after its loop
RobustChild(nodes, root, legal) ==
    LET children == nodes[root].children
    IN  IF children = <<>> THEN legal[1]
        ELSE children[FirstMax([i \in 1..Len(children) |->
                                   nodes[children[i].node].visits])].move

\* the locals of choose_move after root, nodes and deadline are set
MCTSLocals(state, legal, time_limit) ==
    [pc |-> "simulate", legal |-> legal,
     nodes |-> _get_node(NoNodes, state, legal), root |-> Key(state),
     deadline |-> time_limit, clock |-> IF time_limit = NoTime THEN 0 ELSE 1,
     simulations_run |-> 0,
     path |-> <<>>, node |-> Key(state), state |-> state,
     current |-> state, depth |-> 0, result |-> 0,
     best_move |-> NoMove]

\* a loop over the simulations that runs one simulation more
Simulated_one_more(s, simulations) ==
    IF s.simulations_run <= simulations
    THEN IF _timed_out(s, s.deadline)
         THEN [Read(s, s.deadline) EXCEPT
                  !.pc = "return", !.best_move = RobustChild(s.nodes, s.root, s.legal)]
         ELSE [Read(s, s.deadline) EXCEPT
                  !.pc = "select", !.path = <<s.root>>, !.node = s.root,
                  !.state = s.nodes[s.root].state]
    ELSE [s EXCEPT !.pc = "return", !.best_move = RobustChild(s.nodes, s.root, s.legal)]

\* the head of the loop over the simulations: a simulation starts, or the loop
\* is over and the move is picked
Simulated(s, simulations) ==
    IF s.simulations_run < simulations
    THEN IF _timed_out(s, s.deadline)
         THEN [Read(s, s.deadline) EXCEPT
                  !.pc = "return", !.best_move = RobustChild(s.nodes, s.root, s.legal)]
         ELSE [Read(s, s.deadline) EXCEPT
                  !.pc = "select", !.path = <<s.root>>, !.node = s.root,
                  !.state = s.nodes[s.root].state]
    ELSE [s EXCEPT !.pc = "return", !.best_move = RobustChild(s.nodes, s.root, s.legal)]

\* the selection loop goes on at the node
Selecting(s) ==
    s.nodes[s.node].untried_moves = <<>> /\ s.nodes[s.node].children # <<>>

\* one pass of the selection loop
Selected(s, exploration_c) ==
    LET child == _select_child(s.nodes, s.nodes[s.node], exploration_c)
    IN  [Read(s, s.deadline) EXCEPT
            !.node = child,
            !.state = s.nodes[child].state,
            !.path = Append(@, child),
            !.pc = IF _timed_out(s, s.deadline) THEN "expand" ELSE "select"]

\* an expansion that leaves the expanded move among the untried moves
Expanded_keeps_move(s) ==
    LET node == s.nodes[s.node]
    IN  IF ~_timed_out(s, s.deadline) /\ node.untried_moves # <<>>
        THEN LET move == node.untried_moves[Len(node.untried_moves)]
                 next_state == make_move_with(s.state, move, FALSE, <<>>).state
                 child_legal == legal_moves(next_state)
                 got == _get_node(s.nodes, next_state, child_legal)
             IN  [Read(s, s.deadline) EXCEPT
                     !.nodes = [got EXCEPT
                                   ![s.node].children =
                                       Append(@, [move |-> move, node |-> Key(next_state)])],
                     !.node = Key(next_state),
                     !.state = next_state,
                     !.path = Append(@, Key(next_state)),
                     !.pc = "rollout", !.current = next_state, !.depth = 0]
        ELSE [Read(s, s.deadline) EXCEPT !.pc = "rollout", !.current = s.state, !.depth = 0]

\* the expansion, and the start of the rollout
Expanded(s) ==
    LET node == s.nodes[s.node]
    IN  IF ~_timed_out(s, s.deadline) /\ node.untried_moves # <<>>
        THEN LET move == node.untried_moves[Len(node.untried_moves)]
                 next_state == make_move_with(s.state, move, FALSE, <<>>).state
                 child_legal == legal_moves(next_state)
                 got == _get_node(s.nodes, next_state, child_legal)
             IN  [Read(s, s.deadline) EXCEPT
                     !.nodes = [got EXCEPT
                                   ![s.node].untried_moves =
                                       SubSeq(@, 1, Len(@) - 1),
                                   ![s.node].children =
                                       Append(@, [move |-> move, node |-> Key(next_state)])],
                     !.node = Key(next_state),
                     !.state = next_state,
                     !.path = Append(@, Key(next_state)),
                     !.pc = "rollout", !.current = next_state, !.depth = 0]
        ELSE [Read(s, s.deadline) EXCEPT !.pc = "rollout", !.current = s.state, !.depth = 0]

\* _rollout returns result
RolledOut(s, reward) == [s EXCEPT !.pc = "backprop", !.result = reward]

\* the moves _choose_rollout_move draws from
RolloutMoves(state, moves, rollout_policy) ==
    LET captures == SelectSeq(moves, LAMBDA m : IsCapture(state, m))
    IN  IF rollout_policy = "capture_bias" /\ captures # <<>> THEN captures ELSE moves

\* a rollout that looks at the material evaluation one ply earlier
RolloutStepped_exit_after_four(s, a) ==
    IF s.depth >= a.rollout_depth
    THEN {[search |-> RolledOut(s, _evaluate_position(s.current)), rng |-> a._rng]}
    ELSE IF _timed_out(s, s.deadline)
    THEN {[search |-> RolledOut(Read(s, s.deadline), _evaluate_position(s.current)),
           rng |-> a._rng]}
    ELSE LET tested == Read(s, s.deadline)
             moves == legal_moves(s.current)
             eval_score == _evaluate_position(s.current)
         IN  IF moves = <<>>
             THEN {[search |-> RolledOut(tested, _result_no_moves(s.current) * SCALE),
                    rng |-> a._rng]}
             ELSE IF s.depth > 4 /\ (eval_score > SCALE \div 2 \/ 0 - eval_score > SCALE \div 2)
             THEN {[search |-> RolledOut(tested, eval_score), rng |-> a._rng]}
             ELSE LET from == RolloutMoves(s.current, moves, a.rollout_policy)
                  IN  {[search |-> [tested EXCEPT
                                       !.current = make_move_with(s.current, from[c.index],
                                                                  FALSE, <<>>).state,
                                       !.depth = @ + 1],
                        rng |-> c.rng] : c \in choice(a._rng, Len(from))}

\* one pass of the loop of _rollout, or its end: the locals and the random source
\* afterwards, for every outcome there can be
RolloutStepped(s, a) ==
    IF s.depth >= a.rollout_depth
    THEN {[search |-> RolledOut(s, _evaluate_position(s.current)), rng |-> a._rng]}
    ELSE IF _timed_out(s, s.deadline)
    THEN {[search |-> RolledOut(Read(s, s.deadline), _evaluate_position(s.current)),
           rng |-> a._rng]}
    ELSE LET tested == Read(s, s.deadline)
             moves == legal_moves(s.current)
             eval_score == _evaluate_position(s.current)
         IN  IF moves = <<>>
             THEN {[search |-> RolledOut(tested, _result_no_moves(s.current) * SCALE),
                    rng |-> a._rng]}
             ELSE IF s.depth > 5 /\ (eval_score > SCALE \div 2 \/ 0 - eval_score > SCALE \div 2)
             THEN {[search |-> RolledOut(tested, eval_score), rng |-> a._rng]}
             ELSE LET from == RolloutMoves(s.current, moves, a.rollout_policy)
                  IN  {[search |-> [tested EXCEPT
                                       !.current = make_move_with(s.current, from[c.index],
                                                                  FALSE, <<>>).state,
                                       !.depth = @ + 1],
                        rng |-> c.rng] : c \in choice(a._rng, Len(from))}

\* the loop over path from its i-th node on
RECURSIVE BackpropagateFrom(_, _, _, _)
BackpropagateFrom(nodes, path, i, reward) ==
    IF i > Len(path) THEN nodes
    ELSE BackpropagateFrom(
             [nodes EXCEPT ![path[i]].visits = @ + 1,
                           ![path[i]].value = @ + (IF nodes[path[i]].state.to_move = "W"
                                                   THEN reward ELSE 0 - reward)],
             path, i + 1, reward)

\* a backpropagation that leaves out the last node of the path
Backpropagated_above_leaf(s) ==
    [s EXCEPT !.nodes = BackpropagateFrom(s.nodes, SubSeq(s.path, 1, Len(s.path) - 1),
                                          1, s.result),
              !.simulations_run = @ + 1,
              !.pc = "simulate"]

\* the backpropagation, and simulations_run += 1
Backpropagated(s) ==
    [s EXCEPT !.nodes = BackpropagateFrom(s.nodes, s.path, 1, s.result),
              !.simulations_run = @ + 1,
              !.pc = "simulate"]

\* choose_move is called: it raises, returns the only move, or sets up the root
MCTSChooseMove ==
    /\ agent.kind = "mcts"
    /\ MayAsk
    /\ \E legal \in {legal_moves(Self)} :
          IF Raises(legal)
          THEN call' = Failed /\ UNCHANGED search
          ELSE IF Len(legal) = 1
          THEN call' = Answered(legal[1]) /\ UNCHANGED search
          ELSE search' = MCTSLocals(Self, legal, agent.time_limit) /\ UNCHANGED call
    /\ UNCHANGED <<board, to_move, move_history, halfmove_clock, position_history,
                   game, agent>>

Simulate ==
    /\ search.pc = "simulate"
    /\ search' = Simulated(search, agent.simulations)
    /\ UNCHANGED <<board, to_move, move_history, halfmove_clock, position_history,
                   call, game, agent>>

\* a pass of the selection loop: the assertion of _select_child ends the call
Select ==
    /\ search.pc = "select"
    /\ IF ~Selecting(search)
       THEN search' = [search EXCEPT !.pc = "expand"] /\ UNCHANGED call
       ELSE IF search.nodes[search.node].visits > 0
       THEN search' = Selected(search, agent.exploration_c) /\ UNCHANGED call
       ELSE /\ call' = [call EXCEPT !.op = "choose_move", !.move = NoMove,
                                     !.error = AssertionMessage]
            /\ search' = NoSearch
    /\ UNCHANGED <<board, to_move, move_history, halfmove_clock, position_history,
                   game, agent>>

Expand ==
    /\ search.pc = "expand"
    /\ search' = Expanded(search)
    /\ UNCHANGED <<board, to_move, move_history, halfmove_clock, position_history,
                   call, game, agent>>

Rollout ==
    /\ search.pc = "rollout"
    /\ \E r \in RolloutStepped(search, agent) :
          /\ search' = r.search
          /\ agent' = [agent EXCEPT !._rng = r.rng]
    /\ UNCHANGED <<board, to_move, move_history, halfmove_clock, position_history,
                   call, game>>

Backpropagate ==
    /\ search.pc = "backprop"
    /\ search' = Backpropagated(search)
    /\ UNCHANGED <<board, to_move, move_history, halfmove_clock, position_history,
                   call, game, agent>>

(***************************************************************************)
(* A caller of MCTSAgent.  It constructs the agent from a seed it keeps in *)
(* call.seed, asks it for moves, and may construct the agent again from    *)
(* the same parameters and seed; call.constructed holds, for every         *)
(* construction, the number of answers there were before it.               *)
(***************************************************************************)

MaxSimulations == 4
MaxRolloutDepth == 2
MaxSeed == 2
MaxAgents == 2

MCTSBoards == MinimaxBoards

StartMCTS(s, a, seed) ==
    /\ Start(s)
    /\ call = [op |-> "init", move |-> NoMove, error |-> "", answers |-> <<>>,
               seed |-> seed, constructed |-> <<0>>]
    /\ agent = a
    /\ search = NoSearch
    /\ game = <<>>

InitMCTS ==
    \/ \E b \in MCTSBoards, side \in {"W", "B"}, simulations \in 1..MaxSimulations,
          rollout_depth \in 1..MaxRolloutDepth,
          rollout_policy \in {"capture_bias", "random"}, seed \in 1..MaxSeed :
          StartMCTS(MiniChessState(b, side, <<>>, 0, <<>>),
                    MCTSAgent(simulations, NoTime, SQRT2, rollout_depth, rollout_policy,
                              seed),
                    seed)
    \/ \E b \in MCTSBoards, side \in {"W", "B"}, time_limit \in TimeLimits :
          StartMCTS(MiniChessState(b, side, <<>>, 0, <<>>),
                    MCTSAgent(MaxSimulations, time_limit, SQRT2, MaxRolloutDepth,
                              "capture_bias", 1),
                    1)
    \/ \E b \in MCTSBoards, side \in {"W", "B"} :
          StartMCTS(MiniChessState(b, side, <<>>, 0, <<>>),
                    MCTSAgent(2, NoTime, SQRT2, 1, "capture_bias", NoSeed),
                    NoSeed)

\* the caller constructs the agent again, with the parameters and the seed it has
Reconstruct ==
    /\ agent.kind = "mcts"
    /\ search.pc = "idle"
    /\ call.op = "choose_move"
    /\ call.error = ""
    /\ Len(call.constructed) < MaxAgents
    /\ agent' = [agent EXCEPT !._rng = Random(call.seed)]
    /\ call' = [call EXCEPT !.op = "construct",
                            !.constructed = Append(@, Len(call.answers))]
    /\ UNCHANGED <<board, to_move, move_history, halfmove_clock, position_history,
                   game, search>>

NextMCTS ==
    \/ MCTSChooseMove
    \/ Simulate
    \/ Select
    \/ Expand
    \/ Rollout
    \/ Backpropagate
    \/ Return
    \/ Reconstruct
    \/ Play

SpecMCTS == InitMCTS /\ [][NextMCTS]_vars

(***************************************************************************)
(* A caller of any of the four agents.                                     *)
(***************************************************************************)

InitAgents ==
    \/ InitMinimax
    \/ \E b \in MCTSBoards, side \in {"W", "B"}, simulations \in {1, MaxSimulations} :
          StartMCTS(MiniChessState(b, side, <<>>, 0, <<>>),
                    MCTSAgent(simulations, NoTime, SQRT2, MaxRolloutDepth, "capture_bias", 1),
                    1)
    \/ \E b \in MCTSBoards, side \in {"W", "B"}, time_limit \in TimeLimits :
          StartMCTS(MiniChessState(b, side, <<>>, 0, <<>>),
                    MCTSAgent(MaxSimulations, time_limit, SQRT2, MaxRolloutDepth,
                              "capture_bias", 1),
                    1)
    \/ \E b \in MCTSBoards, side \in {"W", "B"} :
          StartMCTS(MiniChessState(b, side, <<>>, 0, <<>>),
                    MCTSAgent(2, NoTime, SQRT2, 1, "capture_bias", NoSeed),
                    NoSeed)
    \/ \E b \in TestBoards, side \in {"W", "B"}, seed \in {NoSeed, 1} :
          StartAgent(MiniChessState(b, side, <<>>, 0, <<>>), RandomAgent(seed))
    \/ \E b \in TestBoards, side \in {"W", "B"} :
          StartAgent(MiniChessState(b, side, <<>>, 0, <<>>), GreedyAgent)

NextAgents ==
    \/ RandomChooseMove
    \/ GreedyChooseMove
    \/ MinimaxChooseMove
    \/ Deepen
    \/ RootMove
    \/ Descend
    \/ Ascend
    \/ Commit
    \/ MCTSChooseMove
    \/ Simulate
    \/ Select
    \/ Expand
    \/ Rollout
    \/ Backpropagate
    \/ Return
    \/ Reconstruct
    \/ Play

SpecAgents == InitAgents /\ [][NextAgents]_vars

(***************************************************************************)
(* Claims about MinimaxAgent.choose_move, under SpecMinimax.               *)
(***************************************************************************)

\* the state after move m in state
After(state, m) == make_move_with(state, m, FALSE, <<>>).state

SetMax(S) == CHOOSE x \in S : \A y \in S : y <= x
SetMin(S) == CHOOSE x \in S : \A y \in S : x <= y

\* depth-limited minimax without pruning and without a table: terminal results
\* scaled by TERMINAL_SCORE, material balance at the horizon, both from color's side
RECURSIVE Minimax(_, _, _)
Minimax(state, depth, color) ==
    LET terminal == terminal_result(state)
    IN  IF terminal[1] THEN terminal_score(terminal[2], color)
        ELSE IF depth <= 0 THEN _evaluate(state, color)
        ELSE LET scores == {Minimax(After(state, m), depth - 1, color) :
                               m \in Range(legal_moves(state))}
             IN  IF state.to_move = color THEN SetMax(scores) ELSE SetMin(scores)

\* choose_move is about to return, or has returned, for the state the caller holds
AboutToReturn == agent.kind = "minimax" /\ search.pc = "return"
Untimed == agent.time_limit = NoTime

\* C15: with no time limit and depth >= 1 the move choose_move returns is optimal
\* under depth-limited minimax at the searched depth: no legal move has a successor
\* with a strictly higher minimax score than the successor of the returned move.
C15_MinimaxOptimal ==
    (AboutToReturn /\ Untimed /\ agent.depth >= 1) =>
        LET searched == Len(search.iterations)
            chosen == Minimax(After(Self, search.best_move), searched - 1, to_move)
        IN  \A m \in Range(search.moves) :
                Minimax(After(Self, m), searched - 1, to_move) <= chosen

\* move m wins the game for the side to move in state
WinsAtOnce(state, m) ==
    LET terminal == terminal_result(After(state, m))
    IN  terminal[1] /\ terminal[2] = (IF state.to_move = "W" THEN 1 ELSE 0 - 1)

\* C16: when the side to move has a legal move whose successor is terminal with a
\* win for the mover, an agent with depth >= 1 and no time limit returns a move whose
\* successor is terminal with result +1 when White moved and -1 when Black moved.
C16_FindsMateInOne ==
    (AboutToReturn /\ Untimed /\ agent.depth >= 1
        /\ \E m \in Range(search.moves) : WinsAtOnce(Self, m))
    => WinsAtOnce(Self, search.best_move)

C16_Witness ==
    /\ AboutToReturn /\ Untimed /\ agent.depth >= 1
    /\ to_move = "B"
    /\ \E m \in Range(search.moves) : WinsAtOnce(Self, m)
    /\ \E m \in Range(search.moves) : ~WinsAtOnce(Self, m)
    /\ ~WinsAtOnce(Self, search.moves[1])
    /\ WinsAtOnce(Self, search.best_move)

\* the iteration reached the test after its loop with the deadline not yet passed
Completed(it) == search.deadline = NoTime \/ it.clock < search.deadline

CallStarted ==
    /\ agent.kind = "minimax"
    /\ search.pc = "deepen"
    /\ search.current_depth = 1
    /\ search.iterations = <<>>

\* C18: the table is empty at the start of every choose_move call that has legal
\* moves, and with no time limit the move returned for a state is the same whatever
\* calls were made on the agent before.
C18_TableClearedPerCall ==
    /\ CallStarted => agent._tt = NoTable
    /\ (agent.kind = "minimax" /\ Untimed /\ call.op = "choose_move") =>
          \A i, j \in 1..Len(call.answers) :
              call.answers[i].state = call.answers[j].state
                  => call.answers[i].move = call.answers[j].move

C18_Witness ==
    /\ agent.kind = "minimax" /\ Untimed /\ agent.depth >= 2
    /\ call.op = "choose_move"
    /\ agent._tt # NoTable
    /\ Len(call.answers) >= 3
    /\ call.answers[1].state # call.answers[3].state
    /\ call.answers[2].state = call.answers[3].state

(***************************************************************************)
(* Claims about every agent, under SpecAgents.                             *)
(***************************************************************************)

ChooseMoveEnded == call.op = "choose_move"

\* C12: for every state with at least one legal move, choose_move of RandomAgent,
\* GreedyAgent, MinimaxAgent (any depth, with or without a time limit) and
\* MCTSAgent (any simulation count, with or without a time limit) returns a move
\* that is a member of legal_moves(state).
C12_ReturnsLegalMove ==
    ChooseMoveEnded =>
        LET legal == legal_moves(Self)
        IN  legal # <<>> => (call.error = "" /\ call.move \in Range(legal))

C12_Witness ==
    /\ ChooseMoveEnded
    /\ agent.kind = "mcts"
    /\ agent.time_limit # NoTime
    /\ Len(legal_moves(Self)) > 1
    /\ call.move = legal_moves(Self)[1]

\* C13: when legal_moves(state) is empty, choose_move of every agent fails with the
\* no-legal-moves error instead of returning a move, and runs no search: no call
\* is ever running its search in a state without legal moves.
C13_NoLegalMovesError ==
    (ChooseMoveEnded \/ search # NoSearch) =>
        (legal_moves(Self) = <<>> =>
            /\ call.error = NoMovesError
            /\ call.move = NoMove
            /\ search = NoSearch)

C13_Witness ==
    /\ ChooseMoveEnded
    /\ agent.kind = "mcts"
    /\ call.error = NoMovesError
    /\ search = NoSearch
    /\ move_history # <<>>
    /\ _is_in_check(board, to_move)

(***************************************************************************)
(* Claims about MCTSAgent.choose_move, under SpecMCTS.                     *)
(***************************************************************************)

\* the i-th answer came from the first call on an agent
Fresh(i) == (i - 1) \in Range(call.constructed)

\* C19: with a fixed seed, a fixed simulation count and no time limit, two agents
\* constructed with the same parameters and seed return the same move for the same
\* state; and every call starts from a node table that holds the unvisited root only.
C19_Deterministic ==
    /\ (agent.kind = "mcts" /\ ChooseMoveEnded /\ call.seed # NoSeed
            /\ agent.time_limit = NoTime) =>
          \A i, j \in 1..Len(call.answers) :
              (Fresh(i) /\ Fresh(j) /\ call.answers[i].state = call.answers[j].state)
                  => call.answers[i].move = call.answers[j].move
    /\ (agent.kind = "mcts" /\ search.pc = "simulate" /\ search.simulations_run = 0) =>
          /\ DOMAIN search.nodes = {Key(Self)}
          /\ search.nodes[Key(Self)].visits = 0
          /\ search.nodes[Key(Self)].children = <<>>

C19_Witness ==
    /\ agent.kind = "mcts" /\ ChooseMoveEnded /\ call.seed # NoSeed
    /\ agent.time_limit = NoTime
    /\ agent.simulations >= 2
    /\ agent._rng # Random(call.seed)
    /\ Len(call.answers) >= 2
    /\ Fresh(1) /\ Fresh(2)
    /\ call.answers[1].state = call.answers[2].state
    /\ call.answers[1].move = call.answers[2].move
    /\ call.answers[1].move # legal_moves(Self)[Len(legal_moves(Self))]

\* the children of the root when the loop over the simulations is over, and their
\* visit counts
RootChildren == search.nodes[search.root].children
RootVisits(i) == search.nodes[RootChildren[i].node].visits

\* SCALE times the mean value of the i-th child of the root, seen from the root
RootMean(i) ==
    LET child == search.nodes[RootChildren[i].node]
    IN  IF child.visits = 0 THEN 0
        ELSE IF child.state.to_move # search.nodes[search.root].state.to_move
        THEN 0 - Quot(child.value, child.visits)
        ELSE Quot(child.value, child.visits)

MCTSAboutToReturn == agent.kind = "mcts" /\ search.pc = "return"

\* C20: when the root has a child after the simulations, choose_move returns the
\* move of a root child with the maximum visit count, and among the children tied
\* for the maximum the one linked into the root's children first; when the root has
\* no children it returns the first legal move.
C20_MostVisitedChild ==
    MCTSAboutToReturn =>
        IF RootChildren = <<>>
        THEN search.best_move = legal_moves(Self)[1]
        ELSE \E i \in 1..Len(RootChildren) :
                /\ search.best_move = RootChildren[i].move
                /\ \A j \in 1..Len(RootChildren) : RootVisits(j) <= RootVisits(i)
                /\ \A j \in 1..(i - 1) : RootVisits(j) < RootVisits(i)

C20_Witness ==
    /\ MCTSAboutToReturn
    /\ \E i, j, k \in 1..Len(RootChildren) :
          /\ search.best_move = RootChildren[i].move
          /\ i < j
          /\ RootVisits(j) = RootVisits(i)
          /\ RootVisits(i) > 1
          /\ RootMean(k) > RootMean(i)

(***************************************************************************)
(* Construction of the search agents.  A caller gives the options of       *)
(* __init__; call.options keeps them as given, call.error what __init__    *)
(* raised, and agent is the object made, if any.  An option that may be    *)
(* None is a sequence: <<>> for None, <<v>> for the value v.               *)
(***************************************************************************)

\* self.time_limit = time_limit
Limit(time_limit) == IF time_limit = <<>> THEN NoTime ELSE time_limit[1]

\* raise ValueError(message), and __init__ running to its end
ConfigError(message) == [error |-> message, agent |-> NoAgent]
Constructed(a) == [error |-> "", agent |-> a]

\* MCTSAgent.__init__
MCTSAgent_init(simulations, time_limit, exploration_c, rollout_depth, rollout_policy, seed) ==
    IF simulations <= 0
    THEN ConfigError("simulations must be positive")
    ELSE IF time_limit # <<>> /\ time_limit[1] <= 0
    THEN ConfigError("time_limit must be positive when provided")
    ELSE IF rollout_depth <= 0
    THEN ConfigError("rollout_depth must be positive")
    ELSE IF exploration_c <= 0
    THEN ConfigError("exploration_c must be positive")
    ELSE Constructed(MCTSAgent(simulations, Limit(time_limit), exploration_c, rollout_depth,
                               rollout_policy, seed))

\* MinimaxAgent.__init__
MinimaxAgent_init(depth, time_limit) ==
    IF depth < 0
    THEN ConfigError("depth must be non-negative (0 = evaluation only, 1+ = search)")
    ELSE Constructed(MinimaxAgent(depth, Limit(time_limit), "pv_first"))

\* the options a caller gives: integers around zero, exploration constants around
\* zero, and time limits that are None or a number other than the one NoTime
\* stands for None with
MaxOption == 2
OptionInts == (0 - MaxOption)..MaxOption
OptionFloats == {0 - SCALE, 0, 1, SQRT2}
OptionLimits == {<<>>} \cup {<<t>> : t \in OptionInts \ {NoTime}}

ConstructMCTS ==
    /\ call.op = "init"
    /\ \E simulations \in OptionInts, time_limit \in OptionLimits,
          exploration_c \in OptionFloats, rollout_depth \in OptionInts,
          rollout_policy \in {"capture_bias", "random"}, seed \in {NoSeed, 1} :
          \E made \in {MCTSAgent_init(simulations, time_limit, exploration_c, rollout_depth,
                                      rollout_policy, seed)} :
              /\ agent' = made.agent
              /\ call' = [op |-> "MCTSAgent", move |-> NoMove, error |-> made.error,
                          options |-> [simulations |-> simulations,
                                       time_limit |-> time_limit,
                                       exploration_c |-> exploration_c,
                                       rollout_depth |-> rollout_depth,
                                       rollout_policy |-> rollout_policy,
                                       seed |-> seed]]
    /\ UNCHANGED <<board, to_move, move_history, halfmove_clock, position_history,
                   game, search>>

ConstructMinimax ==
    /\ call.op = "init"
    /\ \E depth \in OptionInts, time_limit \in OptionLimits :
          \E made \in {MinimaxAgent_init(depth, time_limit)} :
              /\ agent' = made.agent
              /\ call' = [op |-> "MinimaxAgent", move |-> NoMove, error |-> made.error,
                          options |-> [depth |-> depth, time_limit |-> time_limit]]
    /\ UNCHANGED <<board, to_move, move_history, halfmove_clock, position_history,
                   game, search>>

NextConfig ==
    \/ ConstructMCTS
    \/ ConstructMinimax

SpecConfig == Init /\ [][NextConfig]_vars

\* an option that was provided and is not positive
NotPositive(option) == option # <<>> /\ option[1] <= 0

\* C22: construction is rejected with a configuration error for every invalid
\* option value: simulations <= 0, rollout_depth <= 0, exploration_c <= 0 or a
\* provided time_limit <= 0 for MCTSAgent, and depth < 0 or a provided
\* time_limit <= 0 for MinimaxAgent; no agent object with such a value exists.
C22_InvalidOptionsRejected ==
    LET o == call.options
        rejected == call.error # "" /\ agent = NoAgent
    IN  /\ call.op = "MCTSAgent" =>
              ((o.simulations <= 0 \/ o.rollout_depth <= 0 \/ o.exploration_c <= 0
                   \/ NotPositive(o.time_limit)) => rejected)
        /\ call.op = "MinimaxAgent" =>
              ((o.depth < 0 \/ NotPositive(o.time_limit)) => rejected)

(***************************************************************************)
(* Claims about GreedyAgent.choose_move, under SpecAgents.                 *)
(***************************************************************************)

\* the material balance after move m in state, seen from the side that moves
MoverBalance(state, m) ==
    IF state.to_move = "W" THEN material_balance(After(state, m))
    ELSE 0 - material_balance(After(state, m))

\* C23: GreedyAgent.choose_move returns a legal move that maximizes the mover's
\* material balance after one ply: no other legal move leads to a position with a
\* strictly higher balance for the side that just moved, and among the moves with
\* the maximal balance the first one in legal_moves order is returned.
C23_GreedyMaximizes ==
    (agent.kind = "greedy" /\ call.op = "choose_move" /\ call.error = "") =>
        LET legal == legal_moves(Self)
            balance == [j \in 1..Len(legal) |-> MoverBalance(Self, legal[j])]
        IN  \E i \in 1..Len(legal) :
                /\ call.move = legal[i]
                /\ \A j \in 1..Len(legal) : balance[j] <= balance[i]
                /\ \A j \in 1..(i - 1) : balance[j] < balance[i]

(***************************************************************************)
(* Play from initial_state() along recorded games in which pawns reach     *)
(* their far rank, and up to MaxStray plies away from them.                *)
(***************************************************************************)

\* 8 plies: a white pawn takes its way to row 3 and a black pawn to row 1, each
\* with an empty square ahead and a piece to take on either side, and both push
PromotionLine ==
    << Mv(1, 0, 2, 0), Mv(4, 1, 2, 2), Mv(2, 0, 3, 1), Mv(3, 0, 2, 0),
       Mv(0, 1, 2, 2), Mv(2, 0, 1, 1),
       Move(<<3, 1>>, <<4, 1>>, "Q"), Move(<<1, 1>>, <<0, 1>>, "q") >>

PromotionBook == << PromotionLine, BlackMatesLine >>

NearPromotion ==
    \E k \in 0..Len(move_history), i \in 1..Len(PromotionBook) :
        /\ k > Len(move_history) - MaxStray
        /\ k <= Len(PromotionBook[i])
        /\ SubSeq(PromotionBook[i], 1, k) = SubSeq(move_history, 1, k)

NextPromotion ==
    \/ MakeMove(NearPromotion)
    \/ PlayMove(NearPromotion)

SpecPromotion == Init /\ [][NextPromotion]_vars

(***************************************************************************)
(* Claims about promotion, under SpecPromotion.                            *)
(***************************************************************************)

FarRank(color) == IF color = "W" THEN BOARD_SIZE - 1 ELSE 0
QueenOf(color) == IF color = "W" THEN "Q" ELSE "q"

\* move m on board b moves a pawn onto its far rank
PawnArrives(b, m) ==
    LET piece == At(b, m.from_sq[1], m.from_sq[2])
    IN  piece \in {"P", "p"} /\ m.to_sq[1] = FarRank(_piece_color(piece))

Storing == Searching /\ LoopOver(Top) /\ ~_timed_out(search, search.deadline)

\* the entry the table has after the step for the position of the innermost call
StoredEntry == agent'._tt[<<Top.state.board, Top.state.to_move>>]

\* C25: when _search stores a node's value in the transposition table, the entry is
\* tagged by comparing the value with the alpha and beta the node was entered with:
\* UPPER when the value is at or below that alpha, LOWER when it is at or above that
\* beta, and EXACT when it lies strictly between them, at maximizing and minimizing
\* nodes alike.
C25_FlagFromEntryWindow ==
    [][Storing =>
          /\ StoredEntry.score = Top.value
          /\ StoredEntry.flag = IF Top.value <= Top.alpha0 THEN "UPPER"
                                ELSE IF Top.value >= Top.beta0 THEN "LOWER"
                                ELSE "EXACT"]_vars

\* the innermost _search call is leaving its loop
Leaving == Searching /\ LoopOver(Top)

\* C26: a transposition-table entry is written only by a node whose whole subtree
\* search finished before the deadline: once the deadline has passed no entry is
\* added or overwritten, and no call below a node that stores has returned a static
\* evaluation because of the timeout.
C26_NoStoreAfterDeadline ==
    [][/\ (agent.kind = "minimax" /\ search.pc # "idle"
              /\ _timed_out(search, search.deadline)) => agent'._tt = agent._tt
       /\ (Leaving /\ agent'._tt # agent._tt) =>
              /\ search.clock < search.deadline \/ search.deadline = NoTime
              /\ search.timeouts = Top.timeouts0]_vars

\* the deadline passes below a node that has searched a move already: a call below
\* it has returned early, the node leaves its loop, and the table, which holds
\* entries of nodes that finished in time, has none for the node's position
C26_Witness ==
    /\ Leaving
    /\ _timed_out(search, search.deadline)
    /\ search.timeouts > Top.timeouts0
    /\ Top.i > 2
    /\ agent._tt # NoTable
    /\ <<Top.state.board, Top.state.to_move>> \notin DOMAIN agent._tt

(***************************************************************************)
(* Claims about the steps of a simulation of MCTSAgent, under SpecMCTS.    *)
(***************************************************************************)

\* the step is the expansion of the node the selection ended at
Expanding ==
    /\ agent.kind = "mcts"
    /\ search.pc = "expand"
    /\ search'.pc = "rollout"
    /\ Len(search'.path) = Len(search.path) + 1

\* the move the expansion links into the children of that node
ExpandedMove ==
    LET linked == search'.nodes[search.node].children
    IN  linked[Len(linked)].move

\* C27: expansion takes untried moves captures-first: whenever a node still has both
\* an untried capturing move and an untried quiet move, the move expanded next is a
\* capturing move, so every capture of a node is expanded before any quiet move.
C27_CapturesFirst ==
    [][Expanding =>
          LET node == search.nodes[search.node]
              untried == Range(node.untried_moves)
          IN  ((\E m \in untried : IsCapture(node.state, m))
                  /\ (\E m \in untried : ~IsCapture(node.state, m)))
              => IsCapture(node.state, ExpandedMove)]_vars

\* C28: a rollout never plays a move from a terminal state: if the rollout's current
\* state is terminal (no legal moves, or a draw by repetition, by the 50-move rule
\* or by insufficient material) the rollout stops there and returns that state's
\* exact result (+1, -1 or 0 from White's perspective).
C28_RolloutStopsAtTerminal ==
    [][(agent.kind = "mcts" /\ search.pc = "rollout"
           /\ terminal_result(search.current)[1]) =>
          /\ search'.pc = "backprop"
          /\ search'.result = terminal_result(search.current)[2] * SCALE]_vars

(***************************************************************************)
(* Long rollouts: one simulation from positions in which one side is a     *)
(* queen and a rook ahead, with rollout horizons up to MaxLongRollout.     *)
(***************************************************************************)

MaxLongRollout == 7

\* a queen and a rook against a bare king, for either side
LeadBoards ==
    { Put(Put(Put(Put(EmptyBoard, <<0, 0>>, "K"), <<0, 1>>, "Q"), <<1, 0>>, "R"),
          <<4, 4>>, "k"),
      Put(Put(Put(Put(EmptyBoard, <<4, 4>>, "k"), <<4, 3>>, "q"), <<3, 4>>, "r"),
          <<0, 0>>, "K") }

InitRollout ==
    \E b \in LeadBoards, side \in {"W", "B"},
       rollout_depth \in (MaxLongRollout - 1)..MaxLongRollout,
       rollout_policy \in {"capture_bias", "random"}, seed \in 1..MaxSeed :
        StartMCTS(MiniChessState(b, side, <<>>, 0, <<>>),
                  MCTSAgent(1, NoTime, SQRT2, rollout_depth, rollout_policy, seed),
                  seed)

SpecRollout == InitRollout /\ [][NextMCTS]_vars

(***************************************************************************)
(* Claims about _rollout, under SpecRollout.                               *)
(***************************************************************************)

\* the loop of _rollout is at its test of the material evaluation (line 149): the
\* horizon and the deadline have not ended it and the state has legal moves
RolloutLooks ==
    /\ agent.kind = "mcts"
    /\ search.pc = "rollout"
    /\ search.depth < agent.rollout_depth
    /\ ~_timed_out(search, search.deadline)
    /\ legal_moves(search.current) # <<>>

\* abs(eval_score) > 0.5
BigLead(state) ==
    \/ _evaluate_position(state) > SCALE \div 2
    \/ 0 - _evaluate_position(state) > SCALE \div 2

\* the early exit is taken from plies played on, and not before: with a big lead
\* the step returns the evaluation or plays a move
ExitFrom(plies) ==
    (RolloutLooks /\ BigLead(search.current)) =>
        IF search.depth >= plies
        THEN /\ search'.pc = "backprop"
             /\ search'.result = _evaluate_position(search.current)
        ELSE /\ search'.pc = "rollout"
             /\ search'.depth = search.depth + 1

\* C29: the rollout's early-exit check on the normalized material evaluation
\* (absolute value > 0.5) is applied once 5 rollout plies have been played and at
\* every later ply, and never while fewer than 5 plies have been played.
C29_EarlyExitFromFivePlies == [][ExitFrom(5)]_vars

\* C29, amended: the check is applied once 6 rollout plies have been played and at
\* every later ply, and never while fewer than 6 plies have been played.
C29_EarlyExitFromSixPlies == [][ExitFrom(6)]_vars

\* a rollout has stopped with a big lead after 6 plies, before its horizon and in a
\* state with legal moves
C29_Witness ==
    /\ agent.kind = "mcts"
    /\ search.pc = "backprop"
    /\ search.depth = 6
    /\ search.depth < agent.rollout_depth
    /\ legal_moves(search.current) # <<>>
    /\ BigLead(search.current)
    /\ search.result = _evaluate_position(search.current)

(***************************************************************************)
(* Many simulations from positions with few moves, in which the kings can  *)
(* step away and back: the table of nodes is keyed on the board and the    *)
(* side to move, so the fourth ply of such a line leads to the node of the *)
(* root again.                                                             *)
(***************************************************************************)

MaxPathSimulations == 28

CycleBoards ==
    { Put(Put(Put(Put(EmptyBoard, <<1, 3>>, "K"), <<4, 4>>, "k"), <<3, 4>>, "p"),
          <<2, 3>>, "p"),
      Put(Put(Put(EmptyBoard, <<4, 3>>, "K"), <<2, 4>>, "k"), <<2, 0>>, "n") }

InitCycle ==
    \E b \in CycleBoards, simulations \in (MaxPathSimulations - 1)..MaxPathSimulations,
       seed \in 1..MaxSeed :
        StartMCTS(MiniChessState(b, "W", <<>>, 0, <<>>),
                  MCTSAgent(simulations, NoTime, SQRT2, 1, "capture_bias", seed),
                  seed)

SpecCycle == InitCycle /\ [][NextMCTS]_vars

\* the node of the key is on the path of the simulation
OnPath(key) == \E i \in 1..Len(search.path) : search.path[i] = key

\* C30: backpropagation of one simulation with rollout result r (White's
\* perspective): every node on the path from the root to the reached node has its
\* visit count increased by exactly 1 and its value increased by r if White is to
\* move at that node and by -r if Black is, and every node of the table that is not
\* on the path keeps its visits and value unchanged.
C30_BackpropagationOncePerNode ==
    [][(agent.kind = "mcts" /\ search.pc = "backprop") =>
          /\ DOMAIN search'.nodes = DOMAIN search.nodes
          /\ \A key \in DOMAIN search.nodes :
                LET node == search.nodes[key]
                    after == search'.nodes[key]
                IN  IF OnPath(key)
                    THEN /\ after.visits = node.visits + 1
                         /\ after.value = node.value
                                + (IF node.state.to_move = "W" THEN search.result
                                   ELSE 0 - search.result)
                    ELSE /\ after.visits = node.visits
                         /\ after.value = node.value]_vars

(***************************************************************************)
(* Claims about the loop over the simulations, under SpecMCTS.             *)
(***************************************************************************)

\* C31: MCTSAgent.choose_move starts a new simulation only while fewer than
\* `simulations` have been run and the deadline has not passed: the number of
\* simulations never exceeds `simulations`, equals it exactly when no time limit
\* is set, and when exactly one legal move exists no simulation is run at all and
\* that move is returned.
C31_SimulationBudget ==
    [][agent.kind = "mcts" =>
          /\ (search.pc = "simulate" /\ search'.pc = "select") =>
                /\ search.simulations_run < agent.simulations
                /\ ~_timed_out(search, search.deadline)
          /\ search'.pc # "idle" => search'.simulations_run <= agent.simulations
          /\ (search.pc = "simulate" /\ search'.pc = "return"
                  /\ agent.time_limit = NoTime) =>
                search.simulations_run = agent.simulations
          /\ (search.pc = "idle" /\ search'.pc # "idle") => Len(legal_moves(Self)) > 1
          /\ (search.pc = "idle" /\ Len(legal_moves(Self)) = 1
                  /\ Len(call'.answers) > Len(call.answers)) =>
                /\ call'.move = legal_moves(Self)[1]
                /\ search' = search]_vars

\* a call without a time limit is over its loop after more than one simulation
C31_Witness ==
    /\ MCTSAboutToReturn
    /\ agent.time_limit = NoTime
    /\ agent.simulations > 1
    /\ search.simulations_run = agent.simulations

(***************************************************************************)
(* Selection through transpositions: positions in which pawns block each   *)
(* other and only the kings move, so that few simulations expand every     *)
(* node of a line that leads back to the root.  The path of a simulation   *)
(* is followed up to MaxDescentPath nodes.  The agents run without a time  *)
(* limit or with limits of 1, 2, 4, ... readings of the clock.             *)
(***************************************************************************)

MaxDescentSimulations == 16
MaxDescentPath == 12

\* blocked pawns on four files, the kings behind them
BlockedBoard ==
    Put(Put(Put(Put(Put(Put(Put(Put(Put(Put(EmptyBoard,
        <<1, 0>>, "P"), <<2, 0>>, "p"), <<1, 2>>, "P"), <<2, 2>>, "p"),
        <<2, 3>>, "P"), <<3, 3>>, "p"), <<1, 4>>, "P"), <<2, 4>>, "p"),
        <<0, 3>>, "K"), <<4, 3>>, "k")

InitDescent ==
    \/ \E side \in {"W", "B"}, simulations \in {2, MaxDescentSimulations},
          rollout_depth \in 1..MaxRolloutDepth, seed \in 1..MaxSeed :
          StartMCTS(MiniChessState(BlockedBoard, side, <<>>, 0, <<>>),
                    MCTSAgent(simulations, NoTime, SQRT2, rollout_depth, "capture_bias",
                              seed),
                    seed)
    \/ \E side \in {"W", "B"}, time_limit \in TimeLimits :
          StartMCTS(MiniChessState(BlockedBoard, side, <<>>, 0, <<>>),
                    MCTSAgent(MaxDescentSimulations, time_limit, SQRT2, MaxRolloutDepth,
                              "capture_bias", 1),
                    1)

\* a pass of the selection loop while the path is within the bound
SelectWithin ==
    /\ search.pc = "select"
    /\ Len(search.path) < MaxDescentPath
    /\ Select

NextDescent ==
    \/ MCTSChooseMove
    \/ Simulate
    \/ SelectWithin
    \/ Expand
    \/ Rollout
    \/ Backpropagate
    \/ Return

SpecDescent == InitDescent /\ [][NextDescent]_vars

\* C32: every MCTS simulation terminates when no time limit is set: the selection
\* descent, which follows the best-UCB1 child while the current node has no
\* untried moves and has children, always reaches a node with an untried move or
\* with no children after finitely many steps, even though nodes are shared by
\* (board, side-to-move).  The descent reads visits and values only, and no step
\* of a descent changes them, so the descent is endless exactly when it goes on
\* selecting at a node it has passed before: no descent does.
C32_DescentEnds ==
    (agent.kind = "mcts" /\ search.pc = "select" /\ search.deadline = NoTime
        /\ Selecting(search)) =>
        \A i \in 1..(Len(search.path) - 1) : search.path[i] # search.node

\* C33: the assertion in _select_child never fails: in every reachable search
\* state, any node on which selection is performed (no untried moves, at least one
\* child) has visits > 0, and every node linked as a child has visits >= 1 at the
\* end of the simulation that created it, whether or not the deadline passes
\* during that simulation.
C33_SelectedNodesVisited ==
    agent.kind = "mcts" =>
        /\ call.error # AssertionMessage
        /\ (search.pc = "select" /\ Selecting(search)) =>
              search.nodes[search.node].visits > 0
        /\ search.pc = "simulate" =>
              \A key \in DOMAIN search.nodes :
                  \A i \in 1..Len(search.nodes[key].children) :
                      search.nodes[search.nodes[key].children[i].node].visits >= 1

\* selection is performed on a node below the root
C33_Witness ==
    /\ agent.kind = "mcts"
    /\ search.pc = "select"
    /\ Selecting(search)
    /\ search.node # search.root
    /\ search.nodes[search.node].visits > 0

\* C34: after every completed simulation of a choose_move call, the root node's
\* visit count equals the number of simulations run so far in that call (each
\* simulation adds exactly 1 to the root's visits), also when positions repeat
\* along the selected path.
C34_RootVisitsCountSimulations ==
    (agent.kind = "mcts" /\ search.pc = "simulate") =>
        search.nodes[search.root].visits = search.simulations_run

\* the items of a sequence
Items(seq) == {seq[i] : i \in 1..Len(seq)}

\* C35: node-table invariant of MCTS: at every point between simulations, each
\* node is stored under the key (node.state.board, node.state.to_move), at most
\* one node exists per key, and for each node the untried moves and the keys of
\* its children map are disjoint and together are exactly legal_moves(node.state);
\* each child stored under move m is the table's node for the position obtained by
\* applying m.
C35_NodeTable ==
    (agent.kind = "mcts" /\ search.pc = "simulate") =>
        \A key \in DOMAIN search.nodes :
            LET node == search.nodes[key]
                linked == {node.children[i].move : i \in 1..Len(node.children)}
            IN  /\ key = <<node.state.board, node.state.to_move>>
                /\ \A i, j \in 1..Len(node.children) :
                      node.children[i].move = node.children[j].move => i = j
                /\ \A i, j \in 1..Len(node.untried_moves) :
                      node.untried_moves[i] = node.untried_moves[j] => i = j
                /\ Items(node.untried_moves) \cap linked = {}
                /\ Items(node.untried_moves) \cup linked = Items(legal_moves(node.state))
                /\ \A i \in 1..Len(node.children) :
                      LET reached == make_move_with(node.state, node.children[i].move,
                                                    FALSE, <<>>).state
                      IN  /\ node.children[i].node = <<reached.board, reached.to_move>>
                          /\ node.children[i].node \in DOMAIN search.nodes

\* between simulations a node below the root has a child and an untried move, and
\* a node is the child of two nodes
C35_Witness ==
    /\ agent.kind = "mcts"
    /\ search.pc = "simulate"
    /\ \E key \in DOMAIN search.nodes :
          /\ key # search.root
          /\ search.nodes[key].children # <<>>
          /\ search.nodes[key].untried_moves # <<>>
    /\ \E first, second \in DOMAIN search.nodes :
          /\ first # second
          /\ \E i \in 1..Len(search.nodes[first].children) :
                \E j \in 1..Len(search.nodes[second].children) :
                    search.nodes[first].children[i].node
                        = search.nodes[second].children[j].node

\* C36: transposition-table soundness with no deadline: every entry (depth d,
\* score v, flag) stored for a position is a valid bound on that position's
\* depth-d minimax value from the maximizing color's perspective: v equals it when
\* the flag is EXACT, v is not above it when the flag is LOWER, and v is not below
\* it when the flag is UPPER.
C36_StoredBoundsValid ==
    [][(Storing /\ search.deadline = NoTime) =>
          LET exact == Minimax(Top.state, StoredEntry.depth, search.maximizing_color)
          IN  /\ StoredEntry.depth = Top.depth
              /\ StoredEntry.flag = "EXACT" => StoredEntry.score = exact
              /\ StoredEntry.flag = "LOWER" => StoredEntry.score <= exact
              /\ StoredEntry.flag = "UPPER" => StoredEntry.score >= exact]_vars

(***************************************************************************)
(* Claims about _square_attacked, under Spec.                              *)
(***************************************************************************)

\* some piece of by_color has a pseudo-legal move that lands on (r, c)
LandsOn(b, r, c, by_color) ==
    LET moves == pseudo_moves(MiniChessState(b, by_color, <<>>, 0, <<>>))
    IN  \E i \in 1..Len(moves) : moves[i].to_sq = <<r, c>>

\* the squares that hold a piece of the color
Held(b, color) ==
    {sq \in Squares : At(b, sq[1], sq[2]) # None
                         /\ _piece_color(At(b, sq[1], sq[2])) = color}

\* C37: attack detection agrees with move generation: for every board, color and
\* square holding a piece of the other color, _square_attacked(board, r, c,
\* by_color) is true if and only if some piece of by_color has a pseudo-legal move
\* landing on (r, c); in particular a side is in check exactly when the opponent
\* has a pseudo-legal move onto its king's square.
C37_AttackIsPseudoMove ==
    \A by_color \in {"W", "B"} :
        /\ \A sq \in Held(board, Opponent(by_color)) :
              _square_attacked(board, sq[1], sq[2], by_color)
                  <=> LandsOn(board, sq[1], sq[2], by_color)
        /\ _find_king(board, Opponent(by_color)) # NoSquare =>
              (_is_in_check(board, Opponent(by_color))
                  <=> LandsOn(board, _find_king(board, Opponent(by_color))[1],
                              _find_king(board, Opponent(by_color))[2], by_color))

\* games in which every move comes from legal_moves()
NextPlay == PlayMove(NearBook)

SpecPlay == Init /\ [][NextPlay]_vars

\* the side to move is in check, one of its other pieces is attacked and one is not
C37_Witness ==
    /\ _is_in_check(board, to_move)
    /\ \E sq \in Held(board, to_move) :
          /\ sq # _find_king(board, to_move)
          /\ _square_attacked(board, sq[1], sq[2], Opponent(to_move))
          /\ LandsOn(board, sq[1], sq[2], Opponent(to_move))
    /\ \E sq \in Held(board, to_move) :
          /\ ~_square_attacked(board, sq[1], sq[2], Opponent(to_move))
          /\ ~LandsOn(board, sq[1], sq[2], Opponent(to_move))

(***************************************************************************)
(* Whole games: the loop `while not state.is_terminal(): state =           *)
(* state.make_move(move)` with a legal move each time, run to its end.     *)
(* From initial_state() the moves follow the recorded games that end in a  *)
(* terminal state; from a position late in a game (a king and one piece    *)
(* against a king, MaxTailPlies halfmoves before the 50-move rule applies) *)
(* every legal move is played.  The loop goes on while it can.             *)
(***************************************************************************)

MaxTailPlies == 2

GameBook ==
    << OpeningLine \o FiftyMoveEnd, OpeningLine \o StalemateEnd,
       OpeningLine \o BareKingsEnd, WhiteMatesLine, BlackMatesLine >>

TailBoards ==
    { Put(Put(Put(EmptyBoard, <<0, 0>>, "K"), <<2, 2>>, "R"), <<4, 4>>, "k"),
      Put(Put(Put(EmptyBoard, <<0, 4>>, "K"), <<3, 2>>, "n"), <<4, 0>>, "k"),
      Put(Put(Put(EmptyBoard, <<1, 1>>, "K"), <<2, 3>>, "q"), <<4, 3>>, "k") }

InitGame ==
    /\ \/ Start(initial_state)
       \/ \E b \in TailBoards, side \in {"W", "B"} :
             Start(MiniChessState(b, side, <<>>, FIFTY_MOVE_HALFMOVES - MaxTailPlies,
                                  <<>>))
    /\ call = Call("init", NoMove, "")
    /\ game = <<>>
    /\ agent = NoAgent
    /\ search = NoSearch

\* the game began with initial_state()
FromStart ==
    IF position_history = <<>> THEN board = initial_board
    ELSE position_history[1] = <<initial_board, "W">>

\* the moves h are the start of a recorded game that ends in a terminal state
OnGameBook(h) ==
    \E i \in 1..Len(GameBook) :
        Len(h) <= Len(GameBook[i]) /\ SubSeq(GameBook[i], 1, Len(h)) = h

\* one pass of the loop: the state is not terminal and a legal move is played
PlayOn ==
    /\ ~is_terminal(Self)
    /\ \E move \in Range(legal_moves(Self)) :
          /\ FromStart => OnGameBook(Append(move_history, move))
          /\ LET r == make_move(Self, move, FALSE)
             IN  /\ Hold(r.state)
                 /\ call' = Call("make_move", move, r.error)
                 /\ game' = Append(game, [board |-> board, to_move |-> to_move,
                                          move |-> move])
                 /\ UNCHANGED <<agent, search>>

NextGame == PlayOn

SpecGame == InitGame /\ [][NextGame]_vars /\ WF_vars(NextGame)

\* the halfmoves a pawn of the board can still make, summed over the pawns
PawnSteps(b) ==
    SumFrom([i \in 1..Len(RowMajor) |->
                LET piece == At(b, RowMajor[i][1], RowMajor[i][2])
                IN  IF piece = "P" THEN BOARD_SIZE - 1 - RowMajor[i][1]
                    ELSE IF piece = "p" THEN RowMajor[i][1]
                    ELSE 0],
            1, Len(RowMajor))

\* the pieces on the board
Pieces(b) == Cardinality({sq \in Squares : At(b, sq[1], sq[2]) # None})

\* a bound on the halfmoves a game can still have: every capture and every pawn
\* move lowers the first term, every other move raises the clock
Remaining(b, clock) ==
    (FIFTY_MOVE_HALFMOVES + 1) * (Pieces(b) + PawnSteps(b))
        + (FIFTY_MOVE_HALFMOVES - clock)

\* C38: every game terminates: any sequence of legal moves played from
\* initial_state(), continued only while is_terminal() is false, reaches a terminal
\* state after finitely many moves, and in every state of such a game the halfmove
\* clock is at most 100.  Every move of such a game lowers a bound on the halfmoves
\* that remain, which is never negative.
C38_GamesEnd ==
    /\ <>is_terminal(Self)
    /\ [](halfmove_clock <= FIFTY_MOVE_HALFMOVES /\ Remaining(board, halfmove_clock) >= 0)
    /\ [][Remaining(board', halfmove_clock') < Remaining(board, halfmove_clock)]_vars

\* a game has ended by the 50-move rule, with moves left to play
C38_Witness ==
    /\ is_terminal(Self)
    /\ move_history # <<>>
    /\ halfmove_clock = FIFTY_MOVE_HALFMOVES
    /\ legal_moves(Self) # <<>>

(***************************************************************************)
(* The histories of a game.  The variable game holds, for every make_move  *)
(* call that returned, the board and the side to move of the state it was  *)
(* called on and the move it was given.                                    *)
(***************************************************************************)

\* C39: in every state reached from initial_state() by n make_move calls,
\* move_history and position_history both have length n, and position_history[i] is
\* exactly the (board, side to move) pair of the state in which the i-th move was
\* played (move_history[i] is that move), so the repetition count of is_draw()
\* counts precisely the earlier occurrences of the current position in the game.
C39_Histories ==
    /\ Len(move_history) = Len(game)
    /\ Len(position_history) = Len(game)
    /\ \A i \in 1..Len(game) :
          /\ position_history[i] = <<game[i].board, game[i].to_move>>
          /\ move_history[i] = game[i].move
    /\ Count(position_history, <<board, to_move>>) = EarlierOccurrences

\* a position has come back once, after at least four moves, and the position
\* before the last move is not the current one
C39_Witness ==
    /\ Len(game) >= 4
    /\ EarlierOccurrences = 1
    /\ position_history[Len(position_history)] # <<board, to_move>>
    /\ position_history[1] # <<board, to_move>>

====
